---- MODULE Spec2Model ----
(***************************************************************************)
(* Model of the Translation Application Engine of Poke-translator          *)
(* (src/translations_applicator.py, process_single_file).                  *)
(*                                                                         *)
(* Text is modelled character by character: a Python str is a sequence of  *)
(* one-character strings, so that strip(), lower(), split(), substring     *)
(* tests and the regular expressions of the code are computed, not         *)
(* assumed.  Python's None is the value None below.                        *)
(***************************************************************************)
EXTENDS Integers, Sequences, FiniteSets, TLC

\* ------------------------------------------------------------------------
\* Python str primitives
\* ------------------------------------------------------------------------

None == <<"<None>">>

UpperChars == <<"A","B","C","D","E","F","G","H","I","J","K","L","M","N","O","P","Q","R","S","T","U","V","W","X","Y","Z">>

LowerChars == <<"a","b","c","d","e","f","g","h","i","j","k","l","m","n","o","p","q","r","s","t","u","v","w","x","y","z">>

DigitChars == <<"0","1","2","3","4","5","6","7","8","9">>

Range(s) == {s[i] : i \in 1..Len(s)}

UpperSet == Range(UpperChars)

DigitSet == Range(DigitChars)

WordSet == UpperSet \cup Range(LowerChars) \cup DigitSet \cup {"_"}

LowerOf == [c \in UpperSet |-> LowerChars[CHOOSE i \in 1..26 : UpperChars[i] = c]]

\* str.lower() on one character
LowerChar(c) == IF c \in UpperSet THEN LowerOf[c] ELSE c

\* str.lower()
Lower(s) == [i \in 1..Len(s) |-> LowerChar(s[i])]

\* characters str.strip() and str.split() treat as whitespace
IsSpace(c) == c \in {" ", "\n", "\t"}

\* characters the regex class \w matches (and \b is defined by)
IsWordChar(c) == c \in WordSet

\* sub in s
Contains(s, sub) ==
  \E i \in 0..(Len(s) - Len(sub)) : SubSeq(s, i + 1, i + Len(sub)) = sub

\* s.strip()
Strip(s) ==
  LET keep == {i \in 1..Len(s) : ~IsSpace(s[i])}
  IN IF keep = {} THEN << >>
     ELSE LET lo == CHOOSE i \in keep : \A j \in keep : i <= j
              hi == CHOOSE i \in keep : \A j \in keep : i >= j
          IN SubSeq(s, lo, hi)

\* len(s.split()): the number of maximal runs of non-whitespace characters
NumWords(s) ==
  Cardinality({i \in 1..Len(s) : ~IsSpace(s[i]) /\ (i = 1 \/ IsSpace(s[i - 1]))})

\* Python truthiness of an Optional[str]
Truthy(x) == x # None /\ x # << >>

\* str(n) for n >= 0
RECURSIVE IntToStr(_)
IntToStr(n) ==
  IF n < 10 THEN <<DigitChars[n + 1]>>
  ELSE IntToStr(n \div 10) \o <<DigitChars[(n % 10) + 1]>>

DigitValueOf == [c \in DigitSet |-> (CHOOSE i \in 1..10 : DigitChars[i] = c) - 1]

DigitValue(c) == DigitValueOf[c]

\* str.isdigit()
IsDigitStr(s) == s # << >> /\ \A i \in 1..Len(s) : s[i] \in DigitSet

\* int(s) for a string of decimal digits (leading zeros allowed); the caller
\* checks IsDigitStr first: int() raises ValueError on anything else the
\* range test lets through ("", "1.5")
RECURSIVE ParseInt(_)
ParseInt(s) ==
  IF Len(s) = 0 THEN 0
  ELSE ParseInt(SubSeq(s, 1, Len(s) - 1)) * 10 + DigitValue(s[Len(s)])

\* s.replace(c, "") for a single character c
RemoveChar(s, c) == SelectSeq(s, LAMBDA x : x # c)

\* s.split(c) for a single character c
RECURSIVE SplitOn(_, _)
SplitOn(s, c) ==
  IF \A i \in 1..Len(s) : s[i] # c THEN <<s>>
  ELSE LET k == CHOOSE i \in 1..Len(s) : s[i] = c /\ \A j \in 1..(i - 1) : s[j] # c
       IN <<SubSeq(s, 1, k - 1)>> \o SplitOn(SubSeq(s, k + 1, Len(s)), c)

\* ------------------------------------------------------------------------
\* Regular expressions of the code
\* ------------------------------------------------------------------------

\* \b at the gap after position p (0 <= p <= Len(text))
Boundary(text, p) ==
  LET before == p >= 1 /\ IsWordChar(text[p])
      after == p < Len(text) /\ IsWordChar(text[p + 1])
  IN before # after

\* the literal term matches text at position i (1-based); ic: re.IGNORECASE
LiteralAt(text, i, term, ic) ==
  /\ i >= 1
  /\ i + Len(term) - 1 <= Len(text)
  /\ \A k \in 1..Len(term) :
       IF ic THEN LowerChar(text[i + k - 1]) = LowerChar(term[k])
       ELSE text[i + k - 1] = term[k]

\* A compiled term pattern: [term, left, right, ic]; left / right say whether
\* \b is asserted before / after the escaped term
PatMatchAt(pat, text, i) ==
  /\ LiteralAt(text, i, pat.term, pat.ic)
  /\ pat.left => Boundary(text, i - 1)
  /\ pat.right => Boundary(text, i + Len(pat.term) - 1)

\* pattern.search(text) is not None
PatSearch(pat, text) == \E i \in 1..Len(text) : PatMatchAt(pat, text, i)

\* pattern.sub(repl, text): leftmost non-overlapping matches, left to right
RECURSIVE PatSubFrom(_, _, _, _)
PatSubFrom(pat, repl, text, i) ==
  IF i > Len(text) THEN << >>
  ELSE IF PatMatchAt(pat, text, i)
    THEN repl \o PatSubFrom(pat, repl, text, i + Len(pat.term))
    ELSE <<text[i]>> \o PatSubFrom(pat, repl, text, i + 1)

PatSub(pat, repl, text) == PatSubFrom(pat, repl, text, 1)

\* r'\(([^)]+)\)' matched at position i: 0 if it does not match there, else
\* the position of the closing parenthesis
ParenMatchEnd(text, i) ==
  IF i <= Len(text) - 2 /\ text[i] = "(" /\ text[i + 1] # ")"
       /\ \E j \in (i + 2)..Len(text) : text[j] = ")"
    THEN CHOOSE j \in (i + 2)..Len(text) :
           text[j] = ")" /\ \A k \in (i + 2)..(j - 1) : text[k] # ")"
    ELSE 0

\* re.search(r'\(([^)]+)\)', text): group(1) of the leftmost match, or None
ParenSearch(text) ==
  LET starts == {i \in 1..Len(text) : ParenMatchEnd(text, i) # 0}
  IN IF starts = {} THEN None
     ELSE LET i == CHOOSE x \in starts : \A y \in starts : x <= y
          IN SubSeq(text, i + 1, ParenMatchEnd(text, i) - 1)

\* s.find(sub, from): the least position from which sub occurs, at or after
\* from; 0 when there is none (positions are 1-based)
Find(s, sub, from) ==
  LET hits == {p \in from..(Len(s) - Len(sub) + 1) : LiteralAt(s, p, sub, FALSE)}
  IN IF hits = {} THEN 0 ELSE CHOOSE p \in hits : \A q \in hits : p <= q

\* s.find(sub): the first occurrence, used where the last one is asked for
RFind_first(s, sub) == Find(s, sub, 1)

\* s.rfind(sub): the greatest position from which sub occurs; 0 for -1
RFind(s, sub) ==
  LET hits == {p \in 1..(Len(s) - Len(sub) + 1) : LiteralAt(s, p, sub, FALSE)}
  IN IF hits = {} THEN 0 ELSE CHOOSE p \in hits : \A q \in hits : p >= q

NoMatch ==
  [found |-> FALSE, start |-> 0, end |-> 0, group0 |-> << >>,
   opening_tag |-> << >>, id |-> << >>, text |-> << >>, closing_tag |-> << >>]

\* string_pattern = r'(<string\s+id="([^"]+)"[^>]*>)(.*?)(</string>)' with
\* re.DOTALL, matched from position i.  No part of the pattern can match in
\* two ways: \s+ ends at the first character that is no whitespace, [^"]+ at
\* the first quote, [^>]* at the first ">" and .*? at the first "</string>".
StringMatchAt(xml, i) ==
  LET n == Len(xml)
      ws == i + 7
      rest == {p \in ws..n : ~IsSpace(xml[p])}
      a == IF rest = {} THEN n + 1 ELSE CHOOSE p \in rest : \A q \in rest : p <= q
      quote == Find(xml, <<"\"">>, a + 4)
      gt == Find(xml, <<">">>, quote + 1)
      close == Find(xml, <<"<","/","s","t","r","i","n","g",">">>, gt + 1)
  IN IF /\ LiteralAt(xml, i, <<"<","s","t","r","i","n","g">>, FALSE)
        /\ a > ws
        /\ LiteralAt(xml, a, <<"i","d","=","\"">>, FALSE)
        /\ quote > a + 4
        /\ gt # 0
        /\ close # 0
       THEN [found |-> TRUE, start |-> i, end |-> close + 8,
             group0 |-> SubSeq(xml, i, close + 8),
             opening_tag |-> SubSeq(xml, i, gt),
             id |-> SubSeq(xml, a + 4, quote - 1),
             text |-> SubSeq(xml, gt + 1, close - 1),
             closing_tag |-> SubSeq(xml, close, close + 8)]
       ELSE NoMatch

\* the matches re.findall and re.sub go through: leftmost first, each search
\* resumed behind the match before
RECURSIVE FindAllFrom(_, _)
FindAllFrom(xml, pos) ==
  LET starts == {i \in pos..Len(xml) : StringMatchAt(xml, i).found}
  IN IF starts = {} THEN << >>
     ELSE LET m == StringMatchAt(xml, CHOOSE i \in starts : \A j \in starts : i <= j)
          IN <<m>> \o FindAllFrom(xml, m.end + 1)

FindAll(xml) == FindAllFrom(xml, 1)

\* ------------------------------------------------------------------------
\* State of one call of process_single_file
\* ------------------------------------------------------------------------

VARIABLES
  pc,                             \* position in process_single_file
  input_file,                     \* the input document as found on disk
  xml_content,                    \* the text read, rewritten and saved
  add_block_data,                 \* add_block entries of the special-cases file
  special_cases_file,             \* the special-cases file as found on disk
  dict_files,                     \* the dictionary directory as found on disk
  special_cases,                  \* legacy per-id special cases
  global_add_translations,
  global_no_translation_ids,
  global_override_translations,
  global_transform_translations,
  translations,                   \* generic dictionary
  type_translations,
  move_translations,
  ability_translations,
  item_translations,
  sorted_terms,                   \* term index (compiled_patterns order)
  current,
  translated_count,
  not_translated_count,
  special_cases_applied,
  document,                       \* the records of the input document
  results,                        \* what replace_content did, per record
  run,                            \* 1, or 2: the engine run on its own output
  first,                          \* document and results of the first run
  written,                        \* whether the output document was saved
  resolver_call,                  \* arguments of a resolver call
  resolver_result,                \* what that call returned
  submodule_tag,                  \* arguments of calculate_next_mod_version
  current_repo_tags,
  next_mod_version                \* what calculate_next_mod_version returned

vars == <<pc, input_file, xml_content, add_block_data, special_cases_file, dict_files, special_cases,
          global_add_translations, global_no_translation_ids,
          global_override_translations, global_transform_translations,
          translations, type_translations, move_translations,
          ability_translations, item_translations, sorted_terms, current,
          translated_count, not_translated_count, special_cases_applied,
          document, results, run, first, written, resolver_call,
          resolver_result, submodule_tag,
          current_repo_tags, next_mod_version>>

\* ------------------------------------------------------------------------
\* Contextual Resolver
\* ------------------------------------------------------------------------

\* dict.get(key) -> value or None
Get(d, key) == IF key \in DOMAIN d THEN d[key] ELSE None

DescriptionPhrases ==
  {<<"h","e","l","l","o">>, <<"h","i"," ">>, <<"t","h","a","n","k"," ","y","o","u">>, <<"w","o","u","l","d"," ","y","o","u"," ","l","i","k","e">>, <<"d","o"," ","y","o","u"," ","w","a","n","t">>,
   <<"i"," ","a","m">>, <<"i"," ","c","a","n">>, <<"i","t"," ","i","s">>, <<"t","h","e"," ","u","s","e","r">>, <<"t","h","e"," ","t","a","r","g","e","t">>, <<"t","h","i","s"," ","m","o","v","e">>,
   <<"y","o","u"," ","h","a","v","e">>, <<"s","o","r","r","y">>, <<"c","o","n","g","r","a","t","u","l","a","t","i","o","n","s">>, <<"w","e","l","c","o","m","e">>}

\* the type indicators without "type"
TypeIndicators_without_type ==
  {<<"i","n","c","e","n","s","e">>, <<"p","l","a","t","e">>, <<"b","e","r","r","y">>, <<"g","e","m">>, <<"r","e","s","i","s","t","a","n","c","e">>, <<"w","e","a","k","n","e","s","s">>,
   <<"p","o","w","e","r">>, <<"b","o","o","s","t">>, <<"s","t","o","n","e">>, <<"c","h","a","r","m">>}

TypeIndicators ==
  {<<"i","n","c","e","n","s","e">>, <<"p","l","a","t","e">>, <<"b","e","r","r","y">>, <<"g","e","m">>, <<"t","y","p","e">>, <<"r","e","s","i","s","t","a","n","c","e">>,
   <<"w","e","a","k","n","e","s","s">>, <<"p","o","w","e","r">>, <<"b","o","o","s","t">>, <<"s","t","o","n","e">>, <<"c","h","a","r","m">>}

MoveIndicators ==
  {<<"l","e","a","r","n","s">>, <<"t","e","a","c","h">>, <<"t","u","t","o","r">>, <<"t","m">>, <<"l","e","v","e","l"," ","u","p">>, <<"m","o","v","e">>, <<"a","t","t","a","c","k">>,
   <<"s","k","i","l","l">>}

AbilityIndicators ==
  {<<"a","b","i","l","i","t","y">>, <<"a","b","i","l","i","t","i","e","s">>, <<"h","i","d","d","e","n">>, <<"e","f","f","e","c","t">>, <<"a","c","t","i","v","a","t","e","s">>}

DescriptionLength == 50

\* any(phrase in context_lower for phrase in phrases)
AnyIn(phrases, context_lower) == \E p \in phrases : Contains(context_lower, p)

\* is_description by the length alone
is_description_length_only(context_text) ==
  Len(context_text) > DescriptionLength

is_description(context_text) ==
  \/ Len(context_text) > DescriptionLength
  \/ AnyIn(DescriptionPhrases, Lower(context_text))

\* the parenthesis rule: the term is the content of the first parenthesized
\* span of the context and a key of the type dictionary
ParenthesesRule(english_term, context_text) ==
  /\ "(" \in Range(context_text)
  /\ ")" \in Range(context_text)
  /\ ParenSearch(context_text) # None
  /\ english_term = ParenSearch(context_text)
  /\ english_term \in DOMAIN type_translations

\* the resolver with the type dictionary looked up first when the context is
\* the term itself
get_contextual_translation_type_first(english_term, context_text) ==
  LET context_lower == Lower(context_text)
      description == is_description(context_text)
  IN IF description /\ NumWords(english_term) = 1
       THEN None
     ELSE IF english_term = context_text /\ english_term \in DOMAIN type_translations
       THEN type_translations[english_term]
     ELSE IF ParenthesesRule(english_term, context_text)
       THEN type_translations[english_term]
     ELSE IF english_term \in DOMAIN item_translations
       THEN item_translations[english_term]
     ELSE IF english_term \in DOMAIN move_translations
       THEN move_translations[english_term]
     ELSE IF english_term \in DOMAIN ability_translations
       THEN ability_translations[english_term]
     ELSE IF AnyIn(TypeIndicators, context_lower)
               /\ english_term \in DOMAIN type_translations
       THEN type_translations[english_term]
     ELSE IF NumWords(context_text) <= 3 \/ english_term = context_text
       THEN Get(translations, english_term)
     ELSE None

\* the resolver with the type-indicator rule ahead of the item, move and
\* ability lookups
get_contextual_translation_type_indicator_first(english_term, context_text) ==
  LET context_lower == Lower(context_text)
      description == is_description(context_text)
  IN IF description /\ NumWords(english_term) = 1
       THEN None
     ELSE IF ParenthesesRule(english_term, context_text)
       THEN type_translations[english_term]
     ELSE IF AnyIn(TypeIndicators, context_lower)
               /\ english_term \in DOMAIN type_translations
       THEN type_translations[english_term]
     ELSE IF english_term \in DOMAIN item_translations
       THEN item_translations[english_term]
     ELSE IF english_term \in DOMAIN move_translations
       THEN move_translations[english_term]
     ELSE IF english_term \in DOMAIN ability_translations
       THEN ability_translations[english_term]
     ELSE IF NumWords(context_text) <= 3 \/ english_term = context_text
       THEN Get(translations, english_term)
     ELSE None

\* the resolver with the move-indicator and ability-indicator rules ahead of
\* the item, move and ability lookups
get_contextual_translation_indicators_first(english_term, context_text) ==
  LET context_lower == Lower(context_text)
      description == is_description(context_text)
  IN IF description /\ NumWords(english_term) = 1
       THEN None
     ELSE IF ParenthesesRule(english_term, context_text)
       THEN type_translations[english_term]
     ELSE IF ~description
               /\ AnyIn(MoveIndicators, context_lower)
               /\ english_term \in DOMAIN move_translations
       THEN move_translations[english_term]
     ELSE IF AnyIn(AbilityIndicators, context_lower)
               /\ english_term \in DOMAIN ability_translations
       THEN ability_translations[english_term]
     ELSE IF english_term \in DOMAIN item_translations
       THEN item_translations[english_term]
     ELSE IF english_term \in DOMAIN move_translations
       THEN move_translations[english_term]
     ELSE IF english_term \in DOMAIN ability_translations
       THEN ability_translations[english_term]
     ELSE IF AnyIn(TypeIndicators, context_lower)
               /\ english_term \in DOMAIN type_translations
       THEN type_translations[english_term]
     ELSE IF NumWords(context_text) <= 3 \/ english_term = context_text
       THEN Get(translations, english_term)
     ELSE None

get_contextual_translation(english_term, context_text) ==
  LET context_lower == Lower(context_text)
      description == is_description(context_text)
  IN IF description /\ NumWords(english_term) = 1
       THEN None
     ELSE IF ParenthesesRule(english_term, context_text)
       THEN type_translations[english_term]
     ELSE IF english_term \in DOMAIN item_translations
       THEN item_translations[english_term]
     ELSE IF english_term \in DOMAIN move_translations
       THEN move_translations[english_term]
     ELSE IF english_term \in DOMAIN ability_translations
       THEN ability_translations[english_term]
     ELSE IF AnyIn(TypeIndicators, context_lower)
               /\ english_term \in DOMAIN type_translations
       THEN type_translations[english_term]
     ELSE IF ~description
               /\ AnyIn(MoveIndicators, context_lower)
               /\ english_term \in DOMAIN move_translations
       THEN move_translations[english_term]
     ELSE IF AnyIn(AbilityIndicators, context_lower)
               /\ english_term \in DOMAIN ability_translations
       THEN ability_translations[english_term]
     ELSE IF NumWords(context_text) <= 3 \/ english_term = context_text
       THEN Get(translations, english_term)
     ELSE None

\* ------------------------------------------------------------------------
\* Special-Case Registry: loading and range expansion
\* ------------------------------------------------------------------------

EmptyMap == [x \in {} |-> None]

\* d.update(e): the entries of e overwrite those of d
Update(d, e) ==
  [k \in (DOMAIN d) \cup (DOMAIN e) |-> IF k \in DOMAIN e THEN e[k] ELSE d[k]]

\* "-" in id_item and id_item.replace("-", "").replace(".", "").isdigit()
IsRangeForm(id_item) ==
  /\ "-" \in Range(id_item)
  /\ IsDigitStr(RemoveChar(RemoveChar(id_item, "-"), "."))

\* start, end = id_item.split("-"); int(start); int(end) raises ValueError
RangeRaisesValueError(id_item) ==
  LET parts == SplitOn(id_item, "-")
  IN \/ Len(parts) # 2
     \/ ~IsDigitStr(parts[1])
     \/ ~IsDigitStr(parts[2])

\* ExpandIds with range(start_id, end_id): the last id of a range left out
ExpandIds_exclusive_end(id_item) ==
  IF IsRangeForm(id_item)
    THEN IF RangeRaisesValueError(id_item) THEN {}
         ELSE LET parts == SplitOn(id_item, "-")
              IN {IntToStr(n) : n \in ParseInt(parts[1])..(ParseInt(parts[2]) - 1)}
    ELSE {id_item}

\* ExpandIds with a range that does not parse kept as a single id
ExpandIds_keep_malformed(id_item) ==
  IF IsRangeForm(id_item) /\ ~RangeRaisesValueError(id_item)
    THEN LET parts == SplitOn(id_item, "-")
         IN {IntToStr(n) : n \in ParseInt(parts[1])..ParseInt(parts[2])}
    ELSE {id_item}

\* the ids one registry entry is stored under: every str(id_num) of the
\* range, nothing when the range raises ValueError, else the id itself
ExpandIds(id_item) ==
  IF IsRangeForm(id_item)
    THEN IF RangeRaisesValueError(id_item) THEN {}
         ELSE LET parts == SplitOn(id_item, "-")
              IN {IntToStr(n) : n \in ParseInt(parts[1])..ParseInt(parts[2])}
    ELSE {id_item}

\* StoreEntry that leaves an id already stored with its first payload
StoreEntry_keep_first(map, id_item, payload) ==
  Update([k \in ExpandIds(id_item) |-> payload], map)

\* one iteration of a loading loop: every expanded id gets the payload
StoreEntry(map, id_item, payload) ==
  Update(map, [k \in ExpandIds(id_item) |-> payload])

\* for id_entry in override_translation_ids: ...
RECURSIVE LoadOverrides(_, _)
LoadOverrides(map, ids) ==
  IF ids = << >> THEN map
  ELSE LoadOverrides(
         StoreEntry(map, Head(ids).id,
                    [translation |-> Head(ids).translation,
                     reason |-> Head(ids).reason]),
         Tail(ids))

\* for id_entry in transform_translation_ids: ...
RECURSIVE LoadTransforms(_, _)
LoadTransforms(map, ids) ==
  IF ids = << >> THEN map
  ELSE LoadTransforms(
         StoreEntry(map, Head(ids).id,
                    [patterns |-> Head(ids).patterns,
                     reason |-> Head(ids).reason]),
         Tail(ids))

\* for id_entry in no_translation_ids: ...
RECURSIVE LoadNoTranslation(_, _)
LoadNoTranslation(set, ids) ==
  IF ids = << >> THEN set
  ELSE LoadNoTranslation(set \cup ExpandIds(Head(ids).id), Tail(ids))

\* for key, value in special_cases_data.items(): ... (the keys left after
\* the recognised ones are deleted, in file order)
RECURSIVE LoadLegacy(_, _)
LoadLegacy(map, items) ==
  IF items = << >> THEN map
  ELSE LoadLegacy(StoreEntry(map, Head(items).key, Head(items).value),
                  Tail(items))

\* The registry read from the special-cases file.  A missing file, or one
\* json.load rejects, leaves every map empty.
FileLoads(f) == f.exists /\ f.valid_json

Registry(f) ==
  IF FileLoads(f)
    THEN [special_cases |-> LoadLegacy(EmptyMap, f.legacy),
          global_add_translations |-> f.add_translation,
          global_no_translation_ids |-> LoadNoTranslation({}, f.no_translation),
          global_override_translations |-> LoadOverrides(EmptyMap, f.override_translation),
          global_transform_translations |-> LoadTransforms(EmptyMap, f.transform_translation),
          add_block_data |-> f.add_block]
    ELSE [special_cases |-> EmptyMap,
          global_add_translations |-> EmptyMap,
          global_no_translation_ids |-> {},
          global_override_translations |-> EmptyMap,
          global_transform_translations |-> EmptyMap,
          add_block_data |-> << >>]

\* ------------------------------------------------------------------------
\* Dictionary Store
\* ------------------------------------------------------------------------

\* A file's prefix is the dictionary its name selects: "type", "move",
\* "ability", "item", anything else "generic".
\* for filename in os.listdir(translations_dir): <category>.update(data);
\* a file json.load rejects is skipped
RECURSIVE MergeFiles(_, _, _)
MergeFiles(d, files, prefix) ==
  IF files = << >> THEN d
  ELSE MergeFiles(
         IF Head(files).prefix = prefix /\ Head(files).valid_json
           THEN Update(d, Head(files).data) ELSE d,
         Tail(files), prefix)

LoadCategory(dir, prefix) ==
  IF dir.exists THEN MergeFiles(EmptyMap, dir.files, prefix) ELSE EmptyMap

\* translations.update(global_add_translations)
LoadGeneric(dir, add) == Update(LoadCategory(dir, "generic"), add)

\* ------------------------------------------------------------------------
\* Transform patterns: the regular expressions and templates of the registry
\* ------------------------------------------------------------------------

\* A transform regex is modelled by its shape
\*   [valid, start, pre, group, post, end]
\* standing for  ^? pre ( group )? post $?  where pre and post are literal
\* text and group is "none", "digits" for (\d+) or "any" for (.+); valid is
\* FALSE for a string re.compile rejects, given is FALSE for a missing or
\* empty regex.

GroupChar(kind, c) ==
  IF kind = "digits" THEN c \in DigitSet ELSE c # "\n"

\* the regex matches text from position i with a group of g characters
RegexMatchAt(rx, text, i, g) ==
  LET gs == i + Len(rx.pre)
      ps == gs + g
  IN /\ rx.start => i = 1
     /\ LiteralAt(text, i, rx.pre, FALSE)
     /\ IF rx.group = "none" THEN g = 0 ELSE g >= 1
     /\ ps - 1 <= Len(text)
     /\ \A k \in gs..(ps - 1) : GroupChar(rx.group, text[k])
     /\ LiteralAt(text, ps, rx.post, FALSE)
     /\ rx.end => ps + Len(rx.post) = Len(text) + 1

\* re.search(regex_pattern, original_text): the leftmost match with the
\* longest group (the quantifier is greedy), if any:
\* [found, match |-> group(0), groups |-> groups()]
RegexSearch(rx, text) ==
  LET hits == {h \in (1..(Len(text) + 1)) \X (0..Len(text)) :
                 RegexMatchAt(rx, text, h[1], h[2])}
  IN IF hits = {} THEN [found |-> FALSE, match |-> << >>, groups |-> << >>]
     ELSE LET i == CHOOSE x \in {h[1] : h \in hits} :
                     \A y \in {h[1] : h \in hits} : x <= y
              g == CHOOSE x \in {h[2] : h \in {q \in hits : q[1] = i}} :
                     \A y \in {h[2] : h \in {q \in hits : q[1] = i}} : x >= y
              gs == i + Len(rx.pre)
          IN [found |-> TRUE,
              match |-> SubSeq(text, i, gs + g + Len(rx.post) - 1),
              groups |-> IF rx.group = "none" THEN << >>
                         ELSE <<SubSeq(text, gs, gs + g - 1)>>]

\* A template is the sequence of the parts str.format reads left to right:
\*   [kind |-> "lit", text |-> ...]   literal text
\*   [kind |-> "var", name |-> ...]   {name}
\*   [kind |-> "positional"]          {} or {0}: IndexError
\*   [kind |-> "brace"]               a single { or }: ValueError
\* template.format(**template_vars): [status, text]; status is "ok" or the
\* exception the first failing part raises
RECURSIVE Format(_, _)
Format(template, template_vars) ==
  IF template = << >> THEN [status |-> "ok", text |-> << >>]
  ELSE LET part == Head(template)
           rest == Format(Tail(template), template_vars)
           Emit(t) == IF rest.status = "ok"
                        THEN [status |-> "ok", text |-> t \o rest.text]
                        ELSE rest
       IN CASE part.kind = "lit" -> Emit(part.text)
            [] part.kind = "var" ->
                 IF part.name \in DOMAIN template_vars
                   THEN Emit(template_vars[part.name])
                   ELSE [status |-> "KeyError", text |-> << >>]
            [] part.kind = "positional" -> [status |-> "IndexError", text |-> << >>]
            [] OTHER -> [status |-> "ValueError", text |-> << >>]

GroupName(i) == CASE i = 1 -> "group1" [] i = 2 -> "group2" [] OTHER -> "group3"

\* template_vars of a match: original, match, group1..N, translated
TemplateVars(original_text, m, translated) ==
  [n \in {"original", "match", "translated"} \cup {GroupName(i) : i \in 1..Len(m.groups)} |->
     CASE n = "original" -> original_text
       [] n = "match" -> m.match
       [] n = "translated" -> translated
       [] OTHER -> m.groups[CHOOSE i \in 1..Len(m.groups) : GroupName(i) = n]]

\* TranslatedTerm that asks the resolver without looking the main term up in
\* global_add_translations first
TranslatedTerm_resolver_first(m, original_text) ==
  LET main_term == IF Len(m.groups) > 0 THEN m.groups[1] ELSE original_text
      translated_term == get_contextual_translation(main_term, original_text)
  IN IF Truthy(translated_term) THEN translated_term ELSE main_term

\* the value of {translated}: the main term (group 1, or the whole text)
\* looked up in global_add_translations, else by the resolver, else itself
TranslatedTerm(m, original_text) ==
  LET main_term == IF Len(m.groups) > 0 THEN m.groups[1] ELSE original_text
      translated_term ==
        IF main_term \in DOMAIN global_add_translations
          THEN global_add_translations[main_term]
          ELSE get_contextual_translation(main_term, original_text)
  IN IF Truthy(translated_term) THEN translated_term ELSE main_term

\* if not regex_pattern or not template: continue
Skipped(pattern_config) ==
  ~pattern_config.regex.given \/ pattern_config.template = << >>

\* the loop without its break: after a KeyError the next pattern is tried
RECURSIVE TransformLoop_no_break(_, _)
TransformLoop_no_break(patterns, original_text) ==
  IF patterns = << >> THEN [out |-> "fall", text |-> << >>]
  ELSE LET pattern_config == Head(patterns)
       IN IF Skipped(pattern_config)
            THEN TransformLoop_no_break(Tail(patterns), original_text)
          ELSE IF ~pattern_config.regex.valid
            THEN [out |-> "raise", text |-> << >>]
          ELSE LET m == RegexSearch(pattern_config.regex, original_text)
               IN IF ~m.found
                    THEN TransformLoop_no_break(Tail(patterns), original_text)
                  ELSE LET result ==
                             Format(pattern_config.template,
                                    TemplateVars(original_text, m,
                                                 TranslatedTerm(m, original_text)))
                       IN CASE result.status = "ok" ->
                                 [out |-> "emit", text |-> result.text]
                            [] result.status = "KeyError" ->
                                 TransformLoop_no_break(Tail(patterns), original_text)
                            [] OTHER -> [out |-> "raise", text |-> << >>]

\* for pattern_config in patterns: ... ; the outcome of the loop:
\*   [out |-> "emit", text]  the filled template is returned
\*   [out |-> "raise"]       an exception leaves replace_content
\*   [out |-> "fall"]        the loop ends (no match, or KeyError and break)
RECURSIVE TransformLoop(_, _)
TransformLoop(patterns, original_text) ==
  IF patterns = << >> THEN [out |-> "fall", text |-> << >>]
  ELSE LET pattern_config == Head(patterns)
       IN IF Skipped(pattern_config)
            THEN TransformLoop(Tail(patterns), original_text)
          ELSE IF ~pattern_config.regex.valid
            THEN [out |-> "raise", text |-> << >>]
          ELSE LET m == RegexSearch(pattern_config.regex, original_text)
               IN IF ~m.found
                    THEN TransformLoop(Tail(patterns), original_text)
                  ELSE LET result ==
                             Format(pattern_config.template,
                                    TemplateVars(original_text, m,
                                                 TranslatedTerm(m, original_text)))
                       IN CASE result.status = "ok" ->
                                 [out |-> "emit", text |-> result.text]
                            [] result.status = "KeyError" ->
                                 [out |-> "fall", text |-> << >>]
                            [] OTHER -> [out |-> "raise", text |-> << >>]

\* ------------------------------------------------------------------------
\* Substitution Engine
\* ------------------------------------------------------------------------

\* A replacement string given to pattern.sub is a template of the re module:
\* a backslash starts an escape.  \\ \n \t are a character; a backslash
\* before another letter or a digit, or at the end, raises re.error (the
\* patterns here have no group to refer to); before any other character it
\* stays.  [ok, text]
RECURSIVE ReplTemplate(_)
ReplTemplate(repl) ==
  IF repl = << >> THEN [ok |-> TRUE, text |-> << >>]
  ELSE IF Head(repl) # "\\"
    THEN LET rest == ReplTemplate(Tail(repl))
         IN [ok |-> rest.ok, text |-> <<Head(repl)>> \o rest.text]
  ELSE IF Len(repl) = 1 THEN [ok |-> FALSE, text |-> << >>]
  ELSE LET c == repl[2]
           rest == ReplTemplate(SubSeq(repl, 3, Len(repl)))
       IN CASE c = "\\" -> [ok |-> rest.ok, text |-> <<"\\">> \o rest.text]
            [] c = "n" -> [ok |-> rest.ok, text |-> <<"\n">> \o rest.text]
            [] c = "t" -> [ok |-> rest.ok, text |-> <<"\t">> \o rest.text]
            [] IsWordChar(c) /\ c # "_" -> [ok |-> FALSE, text |-> << >>]
            [] OTHER -> [ok |-> rest.ok, text |-> <<"\\", c>> \o rest.text]

\* the pattern of a record-scoped term compiled with re.IGNORECASE
LegacyPattern_ignore_case(english_term) ==
  [term |-> english_term, left |-> TRUE, right |-> TRUE, ic |-> TRUE]

\* re.compile(r'\b' + re.escape(english_term) + r'\b') of a record-scoped term
LegacyPattern(english_term) ==
  [term |-> english_term, left |-> TRUE, right |-> TRUE, ic |-> FALSE]

\* for english_term, temp_translation in temp_translations.items(): ...
\* [ok, text]; ok is FALSE when pattern_temp.sub raises
RECURSIVE LegacySubstitute(_, _)
LegacySubstitute(temp_translations, working_text) ==
  IF temp_translations = << >> THEN [ok |-> TRUE, text |-> working_text]
  ELSE LET english_term == Head(temp_translations).term
           repl == ReplTemplate(Head(temp_translations).translation)
           pattern_temp == LegacyPattern(english_term)
       IN IF PatSearch(pattern_temp, working_text)
            THEN IF repl.ok
                   THEN LegacySubstitute(Tail(temp_translations),
                                         PatSub(pattern_temp, repl.text, working_text))
                   ELSE [ok |-> FALSE, text |-> working_text]
            ELSE LegacySubstitute(Tail(temp_translations), working_text)

Punctuation == {".", "!", "?", ",", ":", ";"}

\* the pattern compiled for a term of the index
CompiledPattern(english_term) ==
  IF english_term[Len(english_term)] \in Punctuation
    THEN [term |-> english_term, left |-> TRUE, right |-> FALSE, ic |-> TRUE]
  ELSE IF english_term[1] \in Punctuation
    THEN [term |-> english_term, left |-> FALSE, right |-> TRUE, ic |-> TRUE]
  ELSE [term |-> english_term, left |-> TRUE, right |-> TRUE, ic |-> TRUE]

\* for compiled_pattern, english_term in compiled_patterns: ...
\* [ok, text]; ok is FALSE when compiled_pattern.sub raises
RECURSIVE PartialSubstitute(_, _, _)
PartialSubstitute(terms, working_text, original_text) ==
  IF terms = << >> THEN [ok |-> TRUE, text |-> working_text]
  ELSE LET english_term == Head(terms)
           compiled_pattern == CompiledPattern(english_term)
       IN IF PatSearch(compiled_pattern, working_text)
            THEN LET context_translation ==
                       get_contextual_translation(english_term, original_text)
                 IN IF Truthy(context_translation)
                      THEN LET repl == ReplTemplate(context_translation)
                           IN IF repl.ok
                                THEN PartialSubstitute(
                                       Tail(terms),
                                       PatSub(compiled_pattern, repl.text, working_text),
                                       original_text)
                                ELSE [ok |-> FALSE, text |-> working_text]
                      ELSE PartialSubstitute(Tail(terms), working_text, original_text)
            ELSE PartialSubstitute(Tail(terms), working_text, original_text)

\* re.sub(r'\(([^)]+)\)', translate_parentheses_content, translated_text)
RECURSIVE ParenSubFrom(_, _)
ParenSubFrom(text, i) ==
  IF i > Len(text) THEN << >>
  ELSE LET e == ParenMatchEnd(text, i)
       IN IF e = 0 THEN <<text[i]>> \o ParenSubFrom(text, i + 1)
          ELSE LET content == SubSeq(text, i + 1, e - 1)
               IN (IF content \in DOMAIN type_translations
                     THEN <<"(">> \o type_translations[content] \o <<")">>
                     ELSE SubSeq(text, i, e))
                  \o ParenSubFrom(text, e + 1)

\* the parenthesis post-pass of the default path
translate_parentheses(translated_text) ==
  IF Truthy(translated_text) /\ "(" \in Range(translated_text)
       /\ ")" \in Range(translated_text)
    THEN ParenSubFrom(translated_text, 1)
    ELSE translated_text

\* What one call of replace_content does:
\*   kind  "original" (match.group(0) is returned), "translated"
\*         (opening tag + text + closing tag is returned) or "raise"
\*   step  the place of the return statement
\*   text  the TEXT of the returned record
\*   t, n, s  what the call adds to translated_count, not_translated_count
\*         and special_cases_applied
Result(kind, step, text, t, n, s) ==
  [kind |-> kind, step |-> step, text |-> text, t |-> t, n |-> n, s |-> s]

\* the normal translation logic with partial substitution tried first and
\* the whole-text resolution only when it changes nothing
DefaultPath_partial_first(match, original_text, s) ==
  LET contextual_translation ==
        get_contextual_translation(original_text, original_text)
      partial == PartialSubstitute(sorted_terms, original_text, original_text)
  IN IF ~partial.ok
       THEN Result("raise", "partial", match.text, 0, 0, s)
     ELSE IF partial.text # original_text
       THEN Result("translated", "partial", translate_parentheses(partial.text), 1, 0, s)
     ELSE IF Truthy(contextual_translation)
       THEN Result("translated", "whole",
                   translate_parentheses(contextual_translation), 1, 0, s)
     ELSE Result("original", "untranslated", match.text, 0, 1, s)

\* Normal translation logic; s is what the earlier steps added to
\* special_cases_applied
DefaultPath(match, original_text, s) ==
  LET contextual_translation ==
        get_contextual_translation(original_text, original_text)
      partial == PartialSubstitute(sorted_terms, original_text, original_text)
      translated_text ==
        IF Truthy(contextual_translation) THEN contextual_translation
        ELSE IF partial.text # original_text THEN partial.text
        ELSE None
  IN IF ~Truthy(contextual_translation) /\ ~partial.ok
       THEN Result("raise", "partial", match.text, 0, 0, s)
     ELSE IF Truthy(translated_text)
       THEN Result("translated",
                   IF Truthy(contextual_translation) THEN "whole" ELSE "partial",
                   translate_parentheses(translated_text), 1, 0, s)
     ELSE Result("original", "untranslated", match.text, 0, 1, s)

\* if string_id in special_cases: ... then the normal logic
LegacyStep(match, original_text, s) ==
  IF match.id \in DOMAIN special_cases
    THEN LET case == special_cases[match.id]
         IN IF case.type = "no_translation"
              THEN Result("original", "legacy_no_translation", match.text, 0, 1, s + 1)
            ELSE IF case.type = "add_translation" /\ case.translations # << >>
              THEN LET w == LegacySubstitute(case.translations, original_text)
                   IN IF ~w.ok
                        THEN Result("raise", "legacy_add_translation", match.text, 0, 0, s + 1)
                      ELSE IF w.text # original_text
                        THEN Result("translated", "legacy_add_translation", w.text, 1, 0, s + 1)
                      ELSE DefaultPath(match, original_text, s + 1)
            ELSE DefaultPath(match, original_text, s)
    ELSE DefaultPath(match, original_text, s)

\* TransformStep that goes from a template that cannot be filled straight to
\* the normal logic, past the legacy special case
TransformStep_skip_legacy(match, original_text) ==
  IF match.id \in DOMAIN global_transform_translations
       /\ global_transform_translations[match.id].patterns # << >>
    THEN LET r == TransformLoop(global_transform_translations[match.id].patterns,
                                original_text)
         IN CASE r.out = "emit" -> Result("translated", "transform", r.text, 1, 0, 1)
              [] r.out = "raise" -> Result("raise", "transform", match.text, 0, 0, 1)
              [] OTHER -> DefaultPath(match, original_text, 1)
    ELSE LegacyStep(match, original_text, 0)

\* TransformStep that returns the record as it is when the loop ends without
\* a filled template although a pattern matched
TransformStep_emit_original(match, original_text) ==
  IF match.id \in DOMAIN global_transform_translations
       /\ global_transform_translations[match.id].patterns # << >>
    THEN LET patterns == global_transform_translations[match.id].patterns
             r == TransformLoop(patterns, original_text)
         IN CASE r.out = "emit" -> Result("translated", "transform", r.text, 1, 0, 1)
              [] r.out = "raise" -> Result("raise", "transform", match.text, 0, 0, 1)
              [] OTHER ->
                   IF \E k \in 1..Len(patterns) :
                        /\ ~Skipped(patterns[k])
                        /\ patterns[k].regex.valid
                        /\ RegexSearch(patterns[k].regex, original_text).found
                     THEN Result("original", "transform", match.text, 0, 1, 1)
                     ELSE LegacyStep(match, original_text, 1)
    ELSE LegacyStep(match, original_text, 0)

\* TransformStep that counts a record the transform step does not emit as
\* not translated before it goes on to the later steps
TransformStep_count_failure(match, original_text) ==
  IF match.id \in DOMAIN global_transform_translations
       /\ global_transform_translations[match.id].patterns # << >>
    THEN LET r == TransformLoop(global_transform_translations[match.id].patterns,
                                original_text)
             later == LegacyStep(match, original_text, 1)
         IN CASE r.out = "emit" -> Result("translated", "transform", r.text, 1, 0, 1)
              [] r.out = "raise" -> Result("raise", "transform", match.text, 0, 0, 1)
              [] OTHER -> [later EXCEPT !.n = @ + 1]
    ELSE LegacyStep(match, original_text, 0)

\* if string_id in global_transform_translations: ... then the later steps
TransformStep(match, original_text) ==
  IF match.id \in DOMAIN global_transform_translations
       /\ global_transform_translations[match.id].patterns # << >>
    THEN LET r == TransformLoop(global_transform_translations[match.id].patterns,
                                original_text)
         IN CASE r.out = "emit" -> Result("translated", "transform", r.text, 1, 0, 1)
              [] r.out = "raise" -> Result("raise", "transform", match.text, 0, 0, 1)
              [] OTHER -> LegacyStep(match, original_text, 1)
    ELSE LegacyStep(match, original_text, 0)

\* replace_content with the no_translation check ahead of the override check
replace_content_no_translation_first(match) ==
  LET original_text == Strip(match.text)
  IN IF original_text = << >>
       THEN Result("original", "empty", match.text, 0, 0, 0)
     ELSE IF match.id \in global_no_translation_ids
       THEN Result("original", "no_translation", match.text, 0, 1, 1)
     ELSE IF match.id \in DOMAIN global_override_translations
       THEN Result("translated", "override",
                   global_override_translations[match.id].translation, 1, 0, 1)
     ELSE TransformStep(match, original_text)

\* replace_content with the parenthesis post-pass applied to an override too
replace_content_override_post_pass(match) ==
  LET original_text == Strip(match.text)
  IN IF original_text = << >>
       THEN Result("original", "empty", match.text, 0, 0, 0)
     ELSE IF match.id \in DOMAIN global_override_translations
       THEN Result("translated", "override",
                   translate_parentheses(
                     global_override_translations[match.id].translation), 1, 0, 1)
     ELSE IF match.id \in global_no_translation_ids
       THEN Result("original", "no_translation", match.text, 0, 1, 1)
     ELSE TransformStep(match, original_text)

\* replace_content with an override left out when the text already is the
\* override's translation
replace_content_override_if_different(match) ==
  LET original_text == Strip(match.text)
  IN IF original_text = << >>
       THEN Result("original", "empty", match.text, 0, 0, 0)
     ELSE IF /\ match.id \in DOMAIN global_override_translations
             /\ global_override_translations[match.id].translation # original_text
       THEN Result("translated", "override",
                   global_override_translations[match.id].translation, 1, 0, 1)
     ELSE IF match.id \in global_no_translation_ids
       THEN Result("original", "no_translation", match.text, 0, 1, 1)
     ELSE TransformStep(match, original_text)

\* replace_content with the legacy special case of the id ahead of the
\* global transform
replace_content_legacy_before_transform(match) ==
  LET original_text == Strip(match.text)
      legacy == LegacyStep(match, original_text, 0)
  IN IF original_text = << >>
       THEN Result("original", "empty", match.text, 0, 0, 0)
     ELSE IF match.id \in DOMAIN global_override_translations
       THEN Result("translated", "override",
                   global_override_translations[match.id].translation, 1, 0, 1)
     ELSE IF match.id \in global_no_translation_ids
       THEN Result("original", "no_translation", match.text, 0, 1, 1)
     ELSE IF legacy.step \in {"legacy_no_translation", "legacy_add_translation"}
       THEN legacy
     ELSE TransformStep(match, original_text)

\* replace_content(match); match is [id, text]: groups 2 and 3 of the record
replace_content(match) ==
  LET original_text == Strip(match.text)
  IN IF original_text = << >>
       THEN Result("original", "empty", match.text, 0, 0, 0)
     ELSE IF match.id \in DOMAIN global_override_translations
       THEN Result("translated", "override",
                   global_override_translations[match.id].translation, 1, 0, 1)
     ELSE IF match.id \in global_no_translation_ids
       THEN Result("original", "no_translation", match.text, 0, 1, 1)
     ELSE TransformStep(match, original_text)

\* ------------------------------------------------------------------------
\* The document: re.sub over the records, then the add_block entries
\* ------------------------------------------------------------------------

\* Returned with the stripped text put between the tags of a record that is
\* emitted as original
Returned_stripped(match, result) ==
  IF result.kind = "translated"
    THEN match.opening_tag \o result.text \o match.closing_tag
    ELSE match.opening_tag \o Strip(match.text) \o match.closing_tag

\* what replace_content returns to re.sub for a record:
\* f"{opening_tag}{translated_text}{closing_tag}" or match.group(0)
Returned(match, result) ==
  IF result.kind = "translated"
    THEN match.opening_tag \o result.text \o match.closing_tag
    ELSE match.group0

\* re.sub(string_pattern, replace_content, xml_content, flags=re.DOTALL): the
\* text from position pos on, with the matches from the k-th on replaced by
\* what replace_content returned for them
RECURSIVE ReSubFrom(_, _, _, _, _)
ReSubFrom(xml, matches, returned, k, pos) ==
  IF k > Len(matches) THEN SubSeq(xml, pos, Len(xml))
  ELSE SubSeq(xml, pos, matches[k].start - 1)
         \o Returned(matches[k], returned[k])
         \o ReSubFrom(xml, matches, returned, k + 1, matches[k].end + 1)

ReSub(xml, matches, returned) == ReSubFrom(xml, matches, returned, 1, 1)

\* input_file.replace("\\", "/")
Normalized(path) ==
  [i \in 1..Len(path) |-> IF path[i] = "\\" THEN "/" ELSE path[i]]

\* the block put before the first "</" of the text
InsertBlock_first_close(xml, content_to_add) ==
  LET last_close_tag_pos == RFind_first(xml, <<"<","/">>)
  IN IF last_close_tag_pos # 0
       THEN SubSeq(xml, 1, last_close_tag_pos - 1) \o content_to_add \o <<"\n">>
              \o SubSeq(xml, last_close_tag_pos, Len(xml))
       ELSE xml

\* xml_content[:last_close_tag_pos] + content_to_add + "\n" +
\* xml_content[last_close_tag_pos:], if "</" is found
InsertBlock(xml, content_to_add) ==
  LET last_close_tag_pos == RFind(xml, <<"<","/">>)
  IN IF last_close_tag_pos # 0
       THEN SubSeq(xml, 1, last_close_tag_pos - 1) \o content_to_add \o <<"\n">>
              \o SubSeq(xml, last_close_tag_pos, Len(xml))
       ELSE xml

\* for file_path, block_info in add_block_data.items(): ...
RECURSIVE ApplyAddBlocks(_, _, _)
ApplyAddBlocks(blocks, path, xml) ==
  IF blocks = << >> THEN xml
  ELSE ApplyAddBlocks(
         Tail(blocks), path,
         IF Head(blocks).file_path = Normalized(path) /\ Head(blocks).content # << >>
           THEN InsertBlock(xml, Head(blocks).content)
           ELSE xml)

\* ------------------------------------------------------------------------
\* Inputs: special-cases files, dictionary directories, records
\* ------------------------------------------------------------------------

Lit(t) == [kind |-> "lit", text |-> t]

Var(n) == [kind |-> "var", name |-> n]

Regex(start, pre, group, post, end) ==
  [given |-> TRUE, valid |-> TRUE, start |-> start, pre |-> pre, group |-> group,
   post |-> post, end |-> end]

PatternConfig(regex, template) == [regex |-> regex, template |-> template]

OverrideEntry(id, translation, reason) ==
  [id |-> id, translation |-> translation, reason |-> reason]

TransformEntry(id, patterns) == [id |-> id, patterns |-> patterns, reason |-> << >>]

LegacyNoTranslation == [type |-> "no_translation", translations |-> << >>]

LegacyAddTranslation(terms) ==
  [type |-> "add_translation", translations |-> terms]

Term(term, translation) == [term |-> term, translation |-> translation]

\* ^Lv\.(\d+)$ -> Liv.{group1}
PatLevel ==
  PatternConfig(Regex(TRUE, <<"L","v",".">>, "digits", << >>, TRUE),
                <<Lit(<<"L","i","v",".">>), Var("group1")>>)

\* (.+) with an empty template: skipped by the loop
PatNoTemplate ==
  PatternConfig(Regex(FALSE, << >>, "any", << >>, FALSE), << >>)

\* a pattern without regex: skipped by the loop
PatNoRegex ==
  PatternConfig([Regex(FALSE, << >>, "any", << >>, FALSE) EXCEPT !.given = FALSE],
                <<Lit(<<"?">>)>>)

\* ^(.+) type\.$ -> Tipo {translated}
PatType ==
  PatternConfig(Regex(TRUE, << >>, "any", <<" ","t","y","p","e",".">>, TRUE),
                <<Lit(<<"T","i","p","o"," ">>), Var("translated")>>)

\* (.+) -> [{original}]
PatAny ==
  PatternConfig(Regex(FALSE, << >>, "any", << >>, FALSE),
                <<Lit(<<"[">>), Var("original"), Lit(<<"]">>)>>)

\* ^(.+)$ -> {group1}{bogus}: KeyError
PatBogus ==
  PatternConfig(Regex(TRUE, << >>, "any", << >>, TRUE),
                <<Var("group1"), Var("bogus")>>)

\* ^Tackle -> {match}={translated}{group1}: no group, KeyError on group1
PatNoGroup ==
  PatternConfig(Regex(TRUE, <<"T","a","c","k","l","e">>, "none", << >>, FALSE),
                <<Var("match"), Lit(<<"=">>), Var("translated"), Var("group1")>>)

\* ^(.+) \( -> {translated}: the main term is group 1
PatMain ==
  PatternConfig(Regex(TRUE, << >>, "any", <<" ","(">>, FALSE),
                <<Var("translated"), Lit(<<" ","<">>), Var("match"), Lit(<<">">>)>>)

\* Psychic -> {translated}!: no group, the main term is the whole text
PatWhole ==
  PatternConfig(Regex(FALSE, <<"P","s","y","c","h","i","c">>, "none", << >>, FALSE),
                <<Var("translated"), Lit(<<"!">>)>>)

\* a regex re.compile rejects, e.g. "(" 
PatInvalid ==
  PatternConfig([Regex(FALSE, << >>, "none", << >>, FALSE) EXCEPT !.valid = FALSE],
                <<Lit(<<"x">>)>>)

\* (.+) -> {0}: IndexError
PatPositional ==
  PatternConfig(Regex(FALSE, << >>, "any", << >>, FALSE), <<[kind |-> "positional"]>>)

\* (.+) -> {group1}{ : ValueError
PatBrace ==
  PatternConfig(Regex(FALSE, << >>, "any", << >>, FALSE),
                <<Var("group1"), [kind |-> "brace"]>>)

SpecialCasesData(add_translation, override_translation, transform_translation, no_translation, legacy) ==
  [exists |-> TRUE, valid_json |-> TRUE,
   add_translation |-> add_translation,
   override_translation |-> override_translation,
   transform_translation |-> transform_translation,
   no_translation |-> no_translation,
   legacy |-> legacy,
   add_block |-> << >>]

\* "add_block": {file_path: {"content": ..., "reason": ...}}
Block(file_path, content) == [file_path |-> file_path, content |-> content]

SpecialCasesDataWith(add_block, add_translation, override_translation, transform_translation, no_translation, legacy) ==
  [SpecialCasesData(add_translation, override_translation, transform_translation,
                    no_translation, legacy)
     EXCEPT !.add_block = add_block]

\* the block of the specification's scenario: a record of its own
BlockContent == <<"<","s","t","r","i","n","g"," ","i","d","=","\"","9","9","\"",">","F","i","r","e","<","/","s","t","r","i","n","g",">">>

NoData == SpecialCasesData(EmptyMap, << >>, << >>, << >>, << >>)

\* no special-cases file
FileMissing == [NoData EXCEPT !.exists = FALSE]

\* a special-cases file that is not JSON
FileNotJson ==
  [SpecialCasesData(EmptyMap, <<OverrideEntry(<<"5">>, <<"X">>, << >>)>>, << >>,
                    <<[id |-> <<"1","0">>]>>, << >>)
     EXCEPT !.valid_json = FALSE, !.add_block = <<Block(<<"a","/","f","o","o",".","x","m","l">>, BlockContent)>>]

\* overrides and no_translation on the same ids, ranges that overlap
FileOverrides ==
  SpecialCasesDataWith(
     <<Block(<<"a","/","b","a","r",".","x","m","l">>, <<"<","!","-","-"," ","b","a","r"," ","-","-",">">>), Block(<<"a","/","f","o","o",".","x","m","l">>, BlockContent)>>,
     EmptyMap,
     <<OverrideEntry(<<"5">>, <<"X"," ","(","W","a","t","e","r",")">>, <<"f","i","x">>),
       OverrideEntry(<<"1","1","-","1","2">>, << >>, << >>),
       OverrideEntry(<<"1","2">>, <<" ","Y"," ">>, <<"l","a","t","e">>),
       OverrideEntry(<<"2","0">>, <<" ">>, << >>)>>,
     <<TransformEntry(<<"5">>, <<PatAny>>)>>,
     <<[id |-> <<"1","0","-","1","2">>], [id |-> <<"5">>]>>,
     << >>)

\* transforms, with legacy entries behind them
FileTransforms ==
  SpecialCasesDataWith(<<Block(<<"a","\\","f","o","o",".","x","m","l">>, BlockContent)>>,
    (<<"T","a","c","k","l","e">> :> <<"B","o","t","t","a">>),
    << >>,
    <<TransformEntry(<<"2","0">>, <<PatLevel>>),
      TransformEntry(<<"5">>, <<PatNoRegex, PatNoTemplate, PatType, PatAny>>),
      TransformEntry(<<"1","0">>, <<PatType, PatBogus, PatAny>>),
      TransformEntry(<<"1","1">>, <<PatNoGroup, PatMain, PatWhole>>),
      TransformEntry(<<"1","2">>, <<PatAny>>)>>,
    <<[id |-> <<"1","2">>]>>,
    <<[key |-> <<"1","0">>, value |-> LegacyAddTranslation(<<Term(<<"F","i","r","e">>, <<"F","u","o","c","o","!">>)>>)],
      [key |-> <<"2","0">>, value |-> LegacyNoTranslation]>>)

\* legacy entries, ranges that do not parse, a replacement with a bad escape
FileLegacy ==
  SpecialCasesDataWith(<<Block(<<"a","/","f","o","o",".","x","m","l">>, << >>)>>,
    EmptyMap,
    <<OverrideEntry(<<"1","-","2","-","3">>, <<"Z">>, << >>), OverrideEntry(<<"-","5">>, <<"Z">>, << >>)>>,
    << >>,
    <<[id |-> <<"1",".","5","-","3">>]>>,
    <<[key |-> <<"1","0","-","1","1">>, value |-> LegacyNoTranslation],
      [key |-> <<"1","1">>, value |-> LegacyAddTranslation(
         <<Term(<<"F","i","r","e">>, <<"F","u","o","c","o","!">>), Term(<<"F","u","o","c","o">>, <<"F","i","a","m","m","a">>), Term(<<"w","a","t","e","r">>, <<"a","c","q","u","a">>)>>)],
      [key |-> <<"1","2">>, value |-> LegacyAddTranslation(<< >>)],
      [key |-> <<"2","0","-">>, value |-> LegacyNoTranslation],
      [key |-> <<"2","0">>, value |-> LegacyAddTranslation(<<Term(<<"W","a","t","e","r">>, <<"A","c","q","u","a","\\","P">>)>>)]>>)

\* transforms whose regex or template str.format and re reject
FileBroken ==
  SpecialCasesData(
    EmptyMap,
    << >>,
    <<TransformEntry(<<"5">>, <<PatLevel, PatInvalid>>),
      TransformEntry(<<"1","0">>, <<PatLevel, PatPositional, PatAny>>),
      TransformEntry(<<"1","1">>, <<PatLevel, PatBrace>>)>>,
    << >>,
    << >>)

\* the no_translation range of the specification's scenario, with a transform
\* and a legacy entry behind it
FileRanges ==
  SpecialCasesDataWith(<<Block(<<"a","/","f","o","o",".","x","m","l">>, BlockContent)>>,
    EmptyMap,
    <<OverrideEntry(<<"5">>, <<"F","i","r","e"," ","S","t","o","n","e">>, << >>)>>,
    <<TransformEntry(<<"1","0">>, <<PatAny>>)>>,
    <<[id |-> <<"1","0","-","1","2">>]>>,
    <<[key |-> <<"1","1">>, value |-> LegacyAddTranslation(<<Term(<<"F","i","r","e">>, <<"F","u","o","c","o">>)>>)]>>)

SpecialCasesFiles ==
  {FileMissing, FileNotJson, FileOverrides, FileTransforms, FileLegacy, FileBroken,
   FileRanges}

DictFile(prefix, data) == [prefix |-> prefix, valid_json |-> TRUE, data |-> data]

TypeFile ==
  DictFile("type", (<<"F","i","r","e">> :> <<"F","u","o","c","o">>) @@ (<<"W","a","t","e","r">> :> <<"A","c","q","u","a">>) @@ (<<"P","s","y","c","h","i","c">> :> <<"P","s","i","c","o">>))

MoveFile ==
  DictFile("move", (<<"H","i","d","d","e","n"," ","P","o","w","e","r">> :> <<"I","n","t","r","o","f","o","r","z","a">>) @@ (<<"T","a","c","k","l","e">> :> <<"A","z","i","o","n","e">>))

ItemFile == DictFile("item", (<<"F","i","r","e"," ","S","t","o","n","e">> :> <<"P","i","e","t","r","a","f","o","c","a","i","a">>))

\* the same names in several dictionaries
MoveFileB == DictFile("move", (<<"P","s","y","c","h","i","c">> :> <<"P","s","i","c","h","i","c","o">>) @@ (<<"T","a","c","k","l","e">> :> <<"A","z","i","o","n","e">>))

AbilityFileB == DictFile("ability", (<<"B","l","a","z","e">> :> <<"A","i","u","t","o","f","u","o","c","o">>) @@ (<<"P","s","y","c","h","i","c">> :> <<"M","e","d","i","u","m">>))

GenericFileB == DictFile("generic", (<<"P","s","y","c","h","i","c">> :> <<"S","e","n","s","i","t","i","v","o">>) @@ (<<"t","y","p","e",".">> :> <<"t","i","p","o",".">>))

\* a second type file: its entries overwrite the first one's
TypeFileB ==
  DictFile("type", (<<"F","i","r","e">> :> <<"F","i","a","m","m","a">>) @@ (<<"S","t","o","n","e">> :> <<"P","i","e","t","r","a">>)
                     @@ (<<"W","e","l","c","o","m","e">> :> <<"B","e","n","v","e","n","u","t","o">>))

ItemFileC == DictFile("item", (<<"P","s","y","c","h","i","c">> :> <<"P","s","i","c","o","s","f","e","r","a">>))

BrokenFile == [prefix |-> "item", valid_json |-> FALSE, data |-> EmptyMap]

DirMissing == [exists |-> FALSE, files |-> << >>]

DirEmpty == [exists |-> TRUE, files |-> <<BrokenFile>>]

DirA == [exists |-> TRUE, files |-> <<TypeFile, MoveFile, ItemFile, BrokenFile>>]

DirB ==
  [exists |-> TRUE,
   files |-> <<TypeFile, MoveFile, ItemFile, MoveFileB, AbilityFileB, GenericFileB>>]

\* a translation that is itself a term of the same length, and a term made
\* of punctuation only
DirF ==
  [exists |-> TRUE,
   files |-> <<TypeFile,
               DictFile("move", (<<"T","a","c","k","l","e">> :> <<"C","h","a","r","g","e">>) @@ (<<"C","h","a","r","g","e">> :> <<"C","h","a","r","g","e","u","r">>)),
               DictFile("generic", (<<".",".",".">> :> <<"[",".",".",".","]">>))>>]

DictionaryDirs == {DirMissing, DirEmpty, DirA, DirB, DirF}

DirC == [exists |-> TRUE, files |-> <<TypeFile, TypeFileB, GenericFileB, ItemFileC>>]

DirD == [exists |-> TRUE, files |-> <<TypeFile, AbilityFileB>>]

\* the ids of a document's records, in document order
RecordIds == <<<<"5">>, <<"1","0">>, <<"1","1">>, <<"1","2">>, <<"2","0">>>>

RecordTexts ==
  {<< >>,
   <<" ","\n"," ">>,
   <<" ","F","i","r","e"," ","t","y","p","e","."," ">>,
   <<"T","h","i","s"," ","m","o","v","e"," ","i","s"," ","F","i","r","e"," ","t","y","p","e",".">>,
   <<"P","s","y","c","h","i","c">>,
   <<"L","v",".","5">>,
   <<"F","i","r","e"," ","S","t","o","n","e">>,
   <<"T","a","c","k","l","e"," ","(","W","a","t","e","r",")">>,
   <<"T","a","c","k","l","e"," ","(","(","W","a","t","e","r",")">>,
   <<"H","e","l","l","o",","," ","H","i","d","d","e","n"," ","P","o","w","e","r"," ","(","W","a","t","e","r",")">>,
   <<"A"," ","F","i","r","e"," ","S","t","o","n","e"," ","m","a","k","e","s"," ","H","i","d","d","e","n"," ","P","o","w","e","r"," ","(","W","a","t","e","r",")"," ","a"," ","l","i","t","t","l","e"," ","s","t","r","o","n","g","e","r",".">>,
   <<"T","a","c","k","l","e"," ","t","y","p","e",".">>}

\* most records one document holds
MaxRecords == 5

\* a document: records with the ids of RecordIds in turn, all of one text
DocumentOf(text, n) ==
  [i \in 1..n |-> [id |-> RecordIds[((i - 1) % Len(RecordIds)) + 1], text |-> text]]

Documents == {DocumentOf(text, MaxRecords) : text \in RecordTexts}

\* the text of a document of the given records.  "resources": a container
\* element, one record a line, each with a second attribute, after a string
\* element that is no record (id is not its first attribute); "bare": the
\* records one after another and nothing else
RECURSIVE Render(_, _)
Render(layout, records) ==
  IF records = << >> THEN << >>
  ELSE (IF layout = "resources"
          THEN <<" "," ","<","s","t","r","i","n","g"," ","i","d","=","\"">> \o Head(records).id \o <<"\""," ","n","a","m","e","=","\"","n","\"",">">>
                 \o Head(records).text \o <<"<","/","s","t","r","i","n","g",">","\n">>
          ELSE <<"<","s","t","r","i","n","g","\n"," ","i","d","=","\"">> \o Head(records).id \o <<"\"",">">>
                 \o Head(records).text \o <<"<","/","s","t","r","i","n","g",">">>)
       \o Render(layout, Tail(records))

XmlOf(layout, records) ==
  IF layout = "resources"
    THEN <<"<","r","e","s","o","u","r","c","e","s",">","\n","<","s","t","r","i","n","g"," ","n","a","m","e","=","\"","n","\""," ","i","d","=","\"","1","\"",">","F","i","r","e","<","/","s","t","r","i","n","g",">","\n">>
           \o Render(layout, records) \o <<"<","/","r","e","s","o","u","r","c","e","s",">","\n">>
    ELSE Render(layout, records)

\* the input documents: the path the engine is given and the text it reads
InputFiles ==
  {[path |-> <<"a","\\","f","o","o",".","x","m","l">>, content |-> XmlOf("resources", d)] : d \in Documents}
    \cup {[path |-> <<"a","/","f","o","o",".","x","m","l">>, content |-> XmlOf("bare", d)] : d \in Documents}
    \cup {[path |-> <<"a","/","f","o","o",".","x","m","l">>, content |-> <<"<","r","e","s","o","u","r","c","e","s","/",">","\n">>]}

\* ------------------------------------------------------------------------
\* process_single_file as a state machine
\* ------------------------------------------------------------------------

NoRun == [document |-> << >>, results |-> << >>]

\* all_terms: the keys of the five dictionaries
AllTerms ==
  (DOMAIN translations) \cup (DOMAIN type_translations)
    \cup (DOMAIN move_translations) \cup (DOMAIN ability_translations)
    \cup (DOMAIN item_translations)

\* sorted(all_terms, key=len, reverse=True): the sort is stable, and the
\* order of terms of the same length is the iteration order of a set of
\* str, which is not fixed (str hashes are salted per process)
RECURSIVE SortedByLength(_)
SortedByLength(terms) ==
  IF terms = {} THEN {<< >>}
  ELSE UNION {{<<t>> \o rest : rest \in SortedByLength(terms \ {t})} :
              t \in {x \in terms : \A y \in terms : Len(x) >= Len(y)}}

Init ==
  /\ pc = "start"
  /\ special_cases_file \in SpecialCasesFiles
  /\ dict_files \in DictionaryDirs
  /\ input_file \in InputFiles
  /\ xml_content = input_file.content
  /\ add_block_data = << >>
  /\ document = FindAll(input_file.content)
  /\ special_cases = EmptyMap
  /\ global_add_translations = EmptyMap
  /\ global_no_translation_ids = {}
  /\ global_override_translations = EmptyMap
  /\ global_transform_translations = EmptyMap
  /\ translations = EmptyMap
  /\ type_translations = EmptyMap
  /\ move_translations = EmptyMap
  /\ ability_translations = EmptyMap
  /\ item_translations = EmptyMap
  /\ sorted_terms = << >>
  /\ current = 0
  /\ translated_count = 0
  /\ not_translated_count = 0
  /\ special_cases_applied = 0
  /\ results = << >>
  /\ run = 1
  /\ first = NoRun
  /\ written = FALSE
  /\ resolver_call = <<None, None>>
  /\ resolver_result = None
  /\ submodule_tag = << >>
  /\ current_repo_tags = << >>
  /\ next_mod_version = None

\* "Load special cases": lines 314-478
LoadSpecialCases ==
  /\ pc = "start"
  /\ \E r \in {Registry(special_cases_file)} :
        /\ special_cases' = r.special_cases
        /\ global_add_translations' = r.global_add_translations
        /\ global_no_translation_ids' = r.global_no_translation_ids
        /\ global_override_translations' = r.global_override_translations
        /\ global_transform_translations' = r.global_transform_translations
        /\ add_block_data' = r.add_block_data
  /\ pc' = "special_cases_loaded"
  /\ UNCHANGED <<submodule_tag, current_repo_tags, next_mod_version,
                 input_file, xml_content,
                 special_cases_file, dict_files, translations, type_translations,
                 move_translations, ability_translations, item_translations,
                 sorted_terms, current, translated_count, not_translated_count,
                 special_cases_applied, document, results, run, first, written,
                 resolver_call, resolver_result>>

\* "Load all JSON translation files": lines 480-525; with five empty
\* dictionaries the function returns here
LoadTranslations ==
  /\ pc = "special_cases_loaded"
  /\ translations' = LoadGeneric(dict_files, global_add_translations)
  /\ type_translations' = LoadCategory(dict_files, "type")
  /\ move_translations' = LoadCategory(dict_files, "move")
  /\ ability_translations' = LoadCategory(dict_files, "ability")
  /\ item_translations' = LoadCategory(dict_files, "item")
  /\ pc' = IF /\ translations' = EmptyMap
              /\ type_translations' = EmptyMap
              /\ move_translations' = EmptyMap
              /\ ability_translations' = EmptyMap
              /\ item_translations' = EmptyMap
             THEN "no_translations"
             ELSE "translations_loaded"
  /\ UNCHANGED <<submodule_tag, current_repo_tags, next_mod_version,
                 input_file, xml_content, add_block_data,
                 special_cases_file, dict_files, special_cases,
                 global_add_translations, global_no_translation_ids,
                 global_override_translations, global_transform_translations,
                 sorted_terms, current, translated_count, not_translated_count,
                 special_cases_applied, document, results, run, first, written,
                 resolver_call, resolver_result>>

\* "Combine all translations for sorting and pre-compile patterns"
CompilePatterns ==
  /\ pc = "translations_loaded"
  /\ sorted_terms' \in SortedByLength(AllTerms)
  /\ pc' = "replacing"
  /\ UNCHANGED <<submodule_tag, current_repo_tags, next_mod_version,
                 input_file, xml_content, add_block_data,
                 special_cases_file, dict_files, special_cases,
                 global_add_translations, global_no_translation_ids,
                 global_override_translations, global_transform_translations,
                 translations, type_translations, move_translations,
                 ability_translations, item_translations, current,
                 translated_count, not_translated_count, special_cases_applied,
                 document, results, run, first, written, resolver_call,
                 resolver_result>>

\* re.sub calls replace_content on the next record of the document; an
\* exception it raises ends process_single_file
ReplaceContent ==
  /\ pc = "replacing"
  /\ current < Len(document)
  /\ \E result \in {replace_content(document[current + 1])} :
        /\ results' = Append(results, result)
        /\ current' = current + 1
        /\ translated_count' = translated_count + result.t
        /\ not_translated_count' = not_translated_count + result.n
        /\ special_cases_applied' = special_cases_applied + result.s
        /\ pc' = IF result.kind = "raise" THEN "raised" ELSE "replacing"
  /\ UNCHANGED <<submodule_tag, current_repo_tags, next_mod_version,
                 input_file, xml_content, add_block_data,
                 special_cases_file, dict_files, special_cases,
                 global_add_translations, global_no_translation_ids,
                 global_override_translations, global_transform_translations,
                 translations, type_translations, move_translations,
                 ability_translations, item_translations, sorted_terms,
                 document, run, first, written, resolver_call, resolver_result>>

\* once re.sub has gone through the document: "Apply add_block AFTER
\* translations", then "Save translated XML"
Save ==
  /\ pc = "replacing"
  /\ current = Len(document)
  /\ xml_content' = ApplyAddBlocks(add_block_data, input_file.path,
                                   ReSub(xml_content, document, results))
  /\ written' = TRUE
  /\ pc' = "saved"
  /\ UNCHANGED <<submodule_tag, current_repo_tags, next_mod_version,
                 input_file, add_block_data,
                 special_cases_file, dict_files, special_cases,
                 global_add_translations, global_no_translation_ids,
                 global_override_translations, global_transform_translations,
                 translations, type_translations, move_translations,
                 ability_translations, item_translations, sorted_terms, current,
                 translated_count, not_translated_count, special_cases_applied,
                 document, results, run, first, resolver_call, resolver_result>>

\* The engine is run again on the document it saved, with the same
\* dictionary directory and special-cases file (which load to the same maps)
RunAgain ==
  /\ pc = "saved"
  /\ run = 1
  /\ run' = 2
  /\ first' = [document |-> document, results |-> results]
  /\ input_file' = [path |-> input_file.path, content |-> xml_content]
  /\ document' = FindAll(xml_content)
  /\ results' = << >>
  /\ current' = 0
  /\ translated_count' = 0
  /\ not_translated_count' = 0
  /\ special_cases_applied' = 0
  /\ written' = FALSE
  /\ pc' = "translations_loaded"
  /\ UNCHANGED <<submodule_tag, current_repo_tags, next_mod_version,
                 xml_content, add_block_data,
                 special_cases_file, dict_files, special_cases,
                 global_add_translations, global_no_translation_ids,
                 global_override_translations, global_transform_translations,
                 translations, type_translations, move_translations,
                 ability_translations, item_translations, sorted_terms,
                 resolver_call, resolver_result>>

Next ==
  \/ LoadSpecialCases
  \/ LoadTranslations
  \/ CompilePatterns
  \/ ReplaceContent
  \/ Save
  \/ RunAgain

Spec == Init /\ [][Next]_vars

\* ------------------------------------------------------------------------
\* Loading the special-cases file alone, over every short list of entries
\* ------------------------------------------------------------------------

\* most entries one category of a special-cases file holds
MaxEntries == 2

\* ids and keys: single ids, ranges, a range with a leading zero, an empty
\* range, malformed ranges, a dash that makes no range
LoadIds == {<<"3">>, <<"2","-","4">>, <<"3","-","3">>, <<"0","8","-","1","0">>, <<"4","-","2">>, <<"1","-","2","-","3">>, <<"x","-","1">>, <<"1",".","5","-","3">>, <<"-","5">>}

SeqsUpTo(S, n) == UNION {[1..k -> S] : k \in 0..n}

OverrideLists ==
  SeqsUpTo({OverrideEntry(id, t, << >>) : id \in LoadIds, t \in {<<"A">>, <<"B">>}},
           MaxEntries)

TransformLists ==
  SeqsUpTo({TransformEntry(id, p) : id \in LoadIds, p \in {<<PatLevel>>, <<PatAny>>}},
           MaxEntries)

NoTranslationLists == SeqsUpTo({[id |-> id] : id \in LoadIds}, MaxEntries)

\* the keys of a JSON object are distinct
LegacyLists ==
  {l \in SeqsUpTo({[key |-> id, value |-> v] :
                     id \in LoadIds,
                     v \in {LegacyNoTranslation,
                            LegacyAddTranslation(<<Term(<<"F","i","r","e">>, <<"F","u","o","c","o">>)>>)}},
                  MaxEntries) :
     \A i, j \in 1..Len(l) : i # j => l[i].key # l[j].key}

LoadFiles ==
  {SpecialCasesData(EmptyMap, l, << >>, << >>, << >>) : l \in OverrideLists}
    \cup {SpecialCasesData(EmptyMap, << >>, l, << >>, << >>) : l \in TransformLists}
    \cup {SpecialCasesData(EmptyMap, << >>, << >>, l, << >>) : l \in NoTranslationLists}
    \cup {SpecialCasesData(EmptyMap, << >>, << >>, << >>, l) : l \in LegacyLists}

InitLoad ==
  /\ pc = "start"
  /\ special_cases_file \in LoadFiles
  /\ dict_files = DirMissing
  /\ input_file = [path |-> <<"a","/","f","o","o",".","x","m","l">>, content |-> << >>]
  /\ xml_content = << >>
  /\ add_block_data = << >>
  /\ document = << >>
  /\ special_cases = EmptyMap
  /\ global_add_translations = EmptyMap
  /\ global_no_translation_ids = {}
  /\ global_override_translations = EmptyMap
  /\ global_transform_translations = EmptyMap
  /\ translations = EmptyMap
  /\ type_translations = EmptyMap
  /\ move_translations = EmptyMap
  /\ ability_translations = EmptyMap
  /\ item_translations = EmptyMap
  /\ sorted_terms = << >>
  /\ current = 0
  /\ translated_count = 0
  /\ not_translated_count = 0
  /\ special_cases_applied = 0
  /\ results = << >>
  /\ run = 1
  /\ first = NoRun
  /\ written = FALSE
  /\ resolver_call = <<None, None>>
  /\ resolver_result = None
  /\ submodule_tag = << >>
  /\ current_repo_tags = << >>
  /\ next_mod_version = None

NextLoad == LoadSpecialCases

SpecLoad == InitLoad /\ [][NextLoad]_vars

\* ------------------------------------------------------------------------
\* get_contextual_translation alone, over terms, contexts and dictionaries
\* ------------------------------------------------------------------------

ResolverDirs == DictionaryDirs \cup {DirC, DirD}

ResolverTerms ==
  {<<"P","s","y","c","h","i","c">>, <<"F","i","r","e">>, <<"W","a","t","e","r">>, <<"S","t","o","n","e">>, <<"W","e","l","c","o","m","e">>, <<"H","i","d","d","e","n"," ","P","o","w","e","r">>,
   <<"F","i","r","e"," ","S","t","o","n","e">>, <<"T","a","c","k","l","e">>, <<"B","l","a","z","e">>, <<"t","y","p","e",".">>}

\* the terms themselves, the texts of the records, a context of 50
\* characters, one of 51, a long conversational one, one with a move
\* indicator and one with an ability indicator
ResolverContexts ==
  ResolverTerms
    \cup ({Strip(text) : text \in RecordTexts} \ {<< >>})
    \cup {<<"T","a","c","k","l","e"," ","a","n","d"," ","P","s","y","c","h","i","c"," ","a","r","e"," ","s","t","r","o","n","g"," ","a","g","a","i","n","s","t"," ","W","a","t","e","r"," ","t","o","d","a","y",".">>,
          <<"T","a","c","k","l","e"," ","a","n","d"," ","P","s","y","c","h","i","c"," ","a","r","e"," ","s","t","r","o","n","g"," ","a","g","a","i","n","s","t"," ","W","a","t","e","r"," ","t","o","d","a","y","!","!">>,
          <<"H","e","l","l","o","!"," ","I","t"," ","i","s"," ","s","u","p","e","r"," ","e","f","f","e","c","t","i","v","e"," ","b","e","c","a","u","s","e"," ","o","f"," ","P","s","y","c","h","i","c"," ","e","n","e","r","g","y"," ","a","n","d"," ","m","u","c","h"," ","m","o","r","e"," ","d","e","s","c","r","i","p","t","i","v","e"," ","t","e","x","t"," ","e","x","c","e","e","d","i","n","g"," ","f","i","f","t","y"," ","c","h","a","r","a","c","t","e","r","s">>,
          <<"L","e","a","r","n","s"," ","T","a","c","k","l","e">>, <<"B","l","a","z","e"," ","a","b","i","l","i","t","y">>}

InitResolver ==
  /\ pc = "resolver"
  /\ special_cases_file = FileMissing
  /\ dict_files \in ResolverDirs
  /\ input_file = [path |-> <<"a","/","f","o","o",".","x","m","l">>, content |-> << >>]
  /\ xml_content = << >>
  /\ add_block_data = << >>
  /\ document = << >>
  /\ special_cases = EmptyMap
  /\ global_add_translations \in {EmptyMap, (<<"T","a","c","k","l","e">> :> <<"B","o","t","t","a">>)}
  /\ global_no_translation_ids = {}
  /\ global_override_translations = EmptyMap
  /\ global_transform_translations = EmptyMap
  /\ translations = LoadGeneric(dict_files, global_add_translations)
  /\ type_translations = LoadCategory(dict_files, "type")
  /\ move_translations = LoadCategory(dict_files, "move")
  /\ ability_translations = LoadCategory(dict_files, "ability")
  /\ item_translations = LoadCategory(dict_files, "item")
  /\ sorted_terms = << >>
  /\ current = 0
  /\ translated_count = 0
  /\ not_translated_count = 0
  /\ special_cases_applied = 0
  /\ results = << >>
  /\ run = 1
  /\ first = NoRun
  /\ written = FALSE
  /\ resolver_call = <<None, None>>
  /\ resolver_result = None
  /\ submodule_tag = << >>
  /\ current_repo_tags = << >>
  /\ next_mod_version = None

\* one call of get_contextual_translation(english_term, context_text)
Resolve ==
  /\ pc = "resolver"
  /\ \E english_term \in ResolverTerms, context_text \in ResolverContexts :
       /\ resolver_call' = <<english_term, context_text>>
       /\ resolver_result' = get_contextual_translation(english_term, context_text)
  /\ pc' = "resolved"
  /\ UNCHANGED <<submodule_tag, current_repo_tags, next_mod_version,
                 input_file, xml_content, add_block_data,
                 special_cases_file, dict_files, special_cases,
                 global_add_translations, global_no_translation_ids,
                 global_override_translations, global_transform_translations,
                 translations, type_translations, move_translations,
                 ability_translations, item_translations, sorted_terms, current,
                 translated_count, not_translated_count, special_cases_applied,
                 document, results, run, first, written>>

NextResolver == Resolve

SpecResolver == InitResolver /\ [][NextResolver]_vars

\* ------------------------------------------------------------------------
\* calculate_next_mod_version (src/automated_translation.py), over short
\* lists of existing tags
\* ------------------------------------------------------------------------

\* str.startswith
StartsWith(s, prefix) ==
  Len(prefix) <= Len(s) /\ SubSeq(s, 1, Len(prefix)) = prefix

ModSeparator == <<"-","m","o","d","_">>

\* x.split('-mod_')[1] of a tag that holds '-mod_'
VersionPart(x) ==
  LET p == Find(x, ModSeparator, 1)
      rest == SubSeq(x, p + Len(ModSeparator), Len(x))
      q == Find(rest, ModSeparator, 1)
  IN IF q = 0 THEN rest ELSE SubSeq(rest, 1, q - 1)

\* ord(c) of the characters tags are made of
Ord(c) ==
  IF c \in DigitSet THEN 48 + DigitValue(c)
  ELSE IF c = "-" THEN 45
  ELSE IF c = "." THEN 46
  ELSE IF c = "_" THEN 95
  ELSE IF c \in UpperSet THEN 64 + (CHOOSE i \in 1..26 : UpperChars[i] = c)
  ELSE 96 + (CHOOSE i \in 1..26 : LowerChars[i] = c)

\* a < b for two str: by code point, a proper prefix first
RECURSIVE StrLess(_, _)
StrLess(a, b) ==
  IF b = << >> THEN FALSE
  ELSE IF a = << >> THEN TRUE
  ELSE IF Head(a) # Head(b) THEN Ord(Head(a)) < Ord(Head(b))
  ELSE StrLess(Tail(a), Tail(b))

\* a < b for two version parts compared as three numbers (of versions that
\* parse)
NumericLess(a, b) ==
  LET x == SplitOn(RemoveChar(a, "a"), ".")
      y == SplitOn(RemoveChar(b, "a"), ".")
  IN \E k \in 1..3 :
       /\ \A j \in 1..(k - 1) : ParseInt(x[j]) = ParseInt(y[j])
       /\ ParseInt(x[k]) < ParseInt(y[k])

\* sorted(mod_tags, key=lambda x: x.split('-mod_')[1])[-1] with the order of
\* numbers in place of the order of str
LatestTag_numeric(mod_tags) ==
  mod_tags[CHOOSE i \in 1..Len(mod_tags) :
             /\ \A j \in 1..Len(mod_tags) :
                  ~NumericLess(VersionPart(mod_tags[i]), VersionPart(mod_tags[j]))
             /\ \A j \in (i + 1)..Len(mod_tags) :
                  NumericLess(VersionPart(mod_tags[j]), VersionPart(mod_tags[i]))]

\* sorted(mod_tags, key=lambda x: x.split('-mod_')[1])[-1]: the sort is
\* stable, so the last of the tags with the greatest key
LatestTag(mod_tags) ==
  mod_tags[CHOOSE i \in 1..Len(mod_tags) :
             /\ \A j \in 1..Len(mod_tags) :
                  ~StrLess(VersionPart(mod_tags[i]), VersionPart(mod_tags[j]))
             /\ \A j \in (i + 1)..Len(mod_tags) :
                  StrLess(VersionPart(mod_tags[j]), VersionPart(mod_tags[i]))]

\* re.match(r'^(\d+)\.(\d+)\.(\d+)(a?)$', version_part): [found, groups]
VersionMatch(version_part) ==
  LET n == Len(version_part)
      auto_suffix == IF n > 0 /\ version_part[n] = "a" THEN <<"a">> ELSE << >>
      parts == SplitOn(SubSeq(version_part, 1, n - Len(auto_suffix)), ".")
  IN IF Len(parts) = 3 /\ \A k \in 1..3 : IsDigitStr(parts[k])
       THEN [found |-> TRUE, groups |-> parts \o <<auto_suffix>>]
       ELSE [found |-> FALSE, groups |-> << >>]

calculate_next_mod_version(tag, existing) ==
  LET mod_tags == SelectSeq(existing, LAMBDA t : StartsWith(t, tag \o ModSeparator))
  IN IF mod_tags = << >>
       THEN tag \o <<"-","m","o","d","_","1",".","0",".","0","a">>
     ELSE LET latest_tag == LatestTag(mod_tags)
              version_part == VersionPart(latest_tag)
              match == VersionMatch(version_part)
          IN IF match.found
               THEN LET major == match.groups[1]
                        minor == match.groups[2]
                        new_patch == ParseInt(match.groups[3]) + 1
                    IN tag \o ModSeparator \o major \o <<".">> \o minor \o <<".">>
                         \o IntToStr(new_patch) \o <<"a">>
               ELSE tag \o <<"-","m","o","d","_","1",".","0",".","1","a">>

SubmoduleTags == {<<"v","1",".","3",".","4">>, <<"v","1",".","4",".","0">>, <<"v","2",".","0",".","0">>}

RepoTags ==
  {<<"v","1",".","3",".","4","-","m","o","d","_","1",".","0",".","0","a">>, <<"v","1",".","3",".","4","-","m","o","d","_","1",".","0",".","1","a">>, <<"v","1",".","3",".","4","-","m","o","d","_","1",".","0",".","9","a">>,
   <<"v","1",".","3",".","4","-","m","o","d","_","1",".","0",".","1","0","a">>, <<"v","1",".","3",".","4","-","m","o","d","_","b","e","t","a">>, <<"v","1",".","4",".","0","-","m","o","d","_","1",".","0",".","0","a">>}

\* most tags the repository holds
MaxTags == 2

InitVersion ==
  /\ pc = "version"
  /\ submodule_tag \in SubmoduleTags
  /\ current_repo_tags \in SeqsUpTo(RepoTags, MaxTags)
  /\ next_mod_version = None
  /\ special_cases_file = FileMissing
  /\ dict_files = DirMissing
  /\ input_file = [path |-> <<"a","/","f","o","o",".","x","m","l">>, content |-> << >>]
  /\ xml_content = << >>
  /\ add_block_data = << >>
  /\ document = << >>
  /\ special_cases = EmptyMap
  /\ global_add_translations = EmptyMap
  /\ global_no_translation_ids = {}
  /\ global_override_translations = EmptyMap
  /\ global_transform_translations = EmptyMap
  /\ translations = EmptyMap
  /\ type_translations = EmptyMap
  /\ move_translations = EmptyMap
  /\ ability_translations = EmptyMap
  /\ item_translations = EmptyMap
  /\ sorted_terms = << >>
  /\ current = 0
  /\ translated_count = 0
  /\ not_translated_count = 0
  /\ special_cases_applied = 0
  /\ results = << >>
  /\ run = 1
  /\ first = NoRun
  /\ written = FALSE
  /\ resolver_call = <<None, None>>
  /\ resolver_result = None

\* one call of calculate_next_mod_version(submodule_tag, current_repo_tags)
CalculateNextModVersion ==
  /\ pc = "version"
  /\ next_mod_version' = calculate_next_mod_version(submodule_tag, current_repo_tags)
  /\ pc' = "version_calculated"
  /\ UNCHANGED <<submodule_tag, current_repo_tags,
                 input_file, xml_content, add_block_data,
                 special_cases_file, dict_files, special_cases,
                 global_add_translations, global_no_translation_ids,
                 global_override_translations, global_transform_translations,
                 translations, type_translations, move_translations,
                 ability_translations, item_translations, sorted_terms, current,
                 translated_count, not_translated_count, special_cases_applied,
                 document, results, run, first, written, resolver_call,
                 resolver_result>>

NextVersion == CalculateNextModVersion

SpecVersion == InitVersion /\ [][NextVersion]_vars

\* ------------------------------------------------------------------------
\* Properties of the per-record cascade (specification Spec)
\* ------------------------------------------------------------------------

\* the records replace_content has been called on in this run
Processed == 1..Len(results)

\* the record has text left after strip()
NonEmpty(i) == Strip(document[i].text) # << >>

\* C1: a record with non-empty text whose id is in both the overrides map and
\* the no_translation set is emitted as translated, with the override's
\* translation as its text, whatever the dictionaries, the transforms and the
\* legacy special cases hold.
C1_OverrideBeatsNoTranslation ==
  \A i \in Processed :
    (/\ NonEmpty(i)
     /\ document[i].id \in DOMAIN global_override_translations
     /\ document[i].id \in global_no_translation_ids)
    => /\ results[i].kind = "translated"
       /\ results[i].text = global_override_translations[document[i].id].translation

\* a record of non-empty text with an id in both maps has been emitted, in a
\* run where a transform on the same id exists and a dictionary knows the text
C1_Witness ==
  \E i \in Processed :
    /\ NonEmpty(i)
    /\ document[i].id \in DOMAIN global_override_translations
    /\ document[i].id \in global_no_translation_ids
    /\ document[i].id \in DOMAIN global_transform_translations
    /\ Strip(document[i].text) \in AllTerms
    /\ results[i].step = "override"

\* C2 as the specification states it: every record whose id is in the
\* overrides map is emitted with exactly the override's translation as its
\* text, whatever the record's text is.
C2_AsStated ==
  \A i \in Processed :
    document[i].id \in DOMAIN global_override_translations
    => /\ results[i].kind = "translated"
       /\ results[i].text = global_override_translations[document[i].id].translation

\* C2, amended: every record with non-empty text (after strip) whose id is in
\* the overrides map is emitted at the override step with exactly the
\* override's translation (the empty string included) as its text: the
\* translation is not stripped, substituted into or post-processed.
C2_OverrideVerbatim ==
  \A i \in Processed :
    (NonEmpty(i) /\ document[i].id \in DOMAIN global_override_translations)
    => /\ results[i].kind = "translated"
       /\ results[i].step = "override"
       /\ results[i].text = global_override_translations[document[i].id].translation
       /\ results[i].t = 1
       /\ results[i].n = 0

\* an override whose translation holds a parenthesized type name has been
\* emitted while the type dictionary knows that name, and an empty override
\* has been emitted too
C2_Witness ==
  /\ \E i \in Processed :
       /\ NonEmpty(i)
       /\ results[i].step = "override"
       /\ results[i].text # translate_parentheses(results[i].text)
  /\ \E i \in Processed :
       /\ NonEmpty(i)
       /\ results[i].step = "override"
       /\ results[i].text = << >>

\* the entries of the no_translation list the special-cases file holds
NoTranslationEntries ==
  IF FileLoads(special_cases_file) THEN special_cases_file.no_translation ELSE << >>

\* the integers a..b a range id "a-b" names
RangeOf(id_item) ==
  LET parts == SplitOn(id_item, "-")
  IN IF Len(parts) = 2 /\ IsDigitStr(parts[1]) /\ IsDigitStr(parts[2])
       THEN ParseInt(parts[1])..ParseInt(parts[2])
       ELSE {}

\* record i has an id in the range of a no_translation entry, and no override
InNoTranslationRange(i) ==
  /\ \E k \in 1..Len(NoTranslationEntries) :
       document[i].id \in {IntToStr(n) : n \in RangeOf(NoTranslationEntries[k].id)}
  /\ document[i].id \notin DOMAIN global_override_translations

\* C3 as the specification states it: every record whose id is in the range
\* a..b of a no_translation entry, and not in overrides, is emitted identical
\* to its input and adds one to the not-translated counter and nothing to the
\* translated counter.
C3_AsStated ==
  \A i \in Processed :
    InNoTranslationRange(i)
    => /\ results[i].kind = "original"
       /\ results[i].text = document[i].text
       /\ results[i].n = 1
       /\ results[i].t = 0

\* C3, amended: every record with non-empty text whose id is the decimal
\* string of an integer in the range a..b of a no_translation entry, and not
\* in overrides, is emitted identical to its input at the no_translation
\* step, adds one to the not-translated counter and nothing to the translated
\* counter; a record with empty or whitespace-only text is emitted identical
\* too but adds nothing to either counter.
C3_NoTranslationRange ==
  \A i \in Processed :
    InNoTranslationRange(i)
    => /\ results[i].kind = "original"
       /\ results[i].text = document[i].text
       /\ results[i].t = 0
       /\ results[i].n = IF NonEmpty(i) THEN 1 ELSE 0
       /\ NonEmpty(i) => results[i].step = "no_translation"

\* the scenario: range 10-12, the records 10, 11 and 12 emitted verbatim at
\* the no_translation step although a dictionary translates their text, and
\* a not-translated counter of 3 once the third of them is done
C3_Witness ==
  /\ \E k \in 1..Len(NoTranslationEntries) : NoTranslationEntries[k].id = <<"1","0","-","1","2">>
  /\ \A id \in {<<"1","0">>, <<"1","1">>, <<"1","2">>} :
       \E i \in Processed :
         /\ document[i].id = id
         /\ InNoTranslationRange(i)
         /\ Truthy(get_contextual_translation(Strip(document[i].text),
                                              Strip(document[i].text)))
         /\ results[i].step = "no_translation"
         /\ results[i].text = document[i].text
  /\ current = 4
  /\ not_translated_count = 3

\* C5 as stated: in a second run on the document the first run saved, with
\* the same dictionaries and registry, every record the first run resolved at
\* the override or the no_translation step is emitted with the text it came
\* in with, whatever the first run saved around it.
C5_AsStated ==
  run = 2 =>
    \A i \in Processed \cap DOMAIN first.results :
      first.results[i].step \in {"override", "no_translation"}
      => /\ results[i].kind \in {"original", "translated"}
         /\ results[i].text = document[i].text

\* C5: in a second run on the document the first run saved, with the same
\* dictionaries and registry, every record the first run resolved at the
\* override or the no_translation step, and whose text in the saved document
\* is the text the first run emitted for it (no add_block content was put
\* inside the record), is emitted with the text it came in with, overrides
\* of an empty or whitespace-only translation included.
C5_SecondRunKeepsResolved ==
  run = 2 =>
    \A i \in Processed \cap DOMAIN first.results :
      /\ first.results[i].step \in {"override", "no_translation"}
      /\ document[i].text = first.results[i].text
      => /\ results[i].kind \in {"original", "translated"}
         /\ results[i].text = document[i].text
         /\ results[i].text = first.results[i].text

\* a second run is through a document in which the first run emitted an
\* empty override, a whitespace-only one, one with text, and a record kept by
\* no_translation
C5_Witness ==
  /\ run = 2
  /\ pc = "saved"
  /\ \E i \in Processed \cap DOMAIN first.results :
       first.results[i].step = "override" /\ first.results[i].text = << >>
  /\ \E i \in Processed \cap DOMAIN first.results :
       /\ first.results[i].step = "override"
       /\ first.results[i].text = <<" ">>
       /\ results[i].step = "empty"
  /\ \E i \in Processed \cap DOMAIN first.results :
       /\ first.results[i].step = "override"
       /\ results[i].step = "override"
       /\ Strip(document[i].text) # document[i].text
  /\ \E i \in Processed \cap DOMAIN first.results :
       first.results[i].step = "no_translation" /\ results[i].step = "no_translation"

\* C8 as the specification states it: a record emitted as translated holds
\* no span "(T)" with T a key of the type dictionary that has another
\* translation: the span reads "(type[T])", whichever step emitted the record.
C8_AsStated ==
  \A i \in Processed :
    results[i].kind = "translated"
    => \A T \in DOMAIN type_translations :
         type_translations[T] # T
         => ~Contains(results[i].text, <<"(">> \o T \o <<")">>)

\* record i reaches the transform step
TransformOnly(i) ==
  /\ NonEmpty(i)
  /\ document[i].id \in DOMAIN global_transform_translations
  /\ document[i].id \notin DOMAIN global_override_translations
  /\ document[i].id \notin global_no_translation_ids

\* the patterns of record i's transform entry
PatternsOf(i) == global_transform_translations[document[i].id].patterns

\* pattern k of record i has a regex, and the regex matches the text
RegexMatches(i, k) ==
  /\ PatternsOf(i)[k].regex.given
  /\ PatternsOf(i)[k].regex.valid
  /\ RegexSearch(PatternsOf(i)[k].regex, Strip(document[i].text)).found

\* pattern k of record i has a regex and a template
Usable(i, k) ==
  PatternsOf(i)[k].regex.given /\ PatternsOf(i)[k].template # << >>

\* the template of pattern k of record i, filled from the record's text
Filled(i, k) ==
  LET original_text == Strip(document[i].text)
      m == RegexSearch(PatternsOf(i)[k].regex, original_text)
  IN Format(PatternsOf(i)[k].template,
            TemplateVars(original_text, m, TranslatedTerm(m, original_text)))

\* the least element of a non-empty set of numbers
Least(S) == CHOOSE k \in S : \A j \in S : k <= j

\* C10 as the specification states it: a record that reaches the transform
\* step is emitted as the filled template of the first pattern, in list
\* order, whose regex matches the original text.
C10_AsStated ==
  \A i \in Processed :
    (TransformOnly(i) /\ \E k \in 1..Len(PatternsOf(i)) : RegexMatches(i, k))
    => LET k == Least({j \in 1..Len(PatternsOf(i)) : RegexMatches(i, j)})
       IN /\ results[i].kind = "translated"
          /\ results[i].text = Filled(i, k).text

\* C10, amended: for a record with non-empty text that reaches the transform
\* step, take the first pattern, in list order, that has both a regex and a
\* non-empty template and whose regex matches the original text, every
\* pattern with a regex and a template before it having a regex that
\* compiles.  If its template can be filled with original, match, group1..N
\* and translated, the record is emitted at the transform step with the
\* filled template as its text; if the template names a variable that is not
\* defined, the record is not emitted at the transform step: no later
\* pattern is applied.
C10_FirstUsableMatch ==
  \A i \in Processed :
    TransformOnly(i)
    => LET cand == {j \in 1..Len(PatternsOf(i)) : Usable(i, j) /\ RegexMatches(i, j)}
       IN cand # {}
          => LET k == Least(cand)
             IN (\A j \in 1..(k - 1) : Usable(i, j) => PatternsOf(i)[j].regex.valid)
                => /\ Filled(i, k).status = "ok"
                      => /\ results[i].kind = "translated"
                         /\ results[i].step = "transform"
                         /\ results[i].text = Filled(i, k).text
                   /\ Filled(i, k).status = "KeyError"
                      => results[i].step # "transform"

\* the scenario (record 20, "Lv.5" emitted as "Liv.5"), a record whose first
\* matching pattern has no template and is passed over, and a record whose
\* first usable pattern cannot be filled although a later pattern matches
C10_Witness ==
  /\ \E i \in Processed :
       /\ TransformOnly(i)
       /\ document[i].id = <<"2","0">>
       /\ document[i].text = <<"L","v",".","5">>
       /\ results[i].text = <<"L","i","v",".","5">>
  /\ \E i \in Processed :
       /\ TransformOnly(i)
       /\ \E k \in 1..Len(PatternsOf(i)) :
            /\ RegexMatches(i, k)
            /\ ~Usable(i, k)
            /\ \E j \in (k + 1)..Len(PatternsOf(i)) :
                 /\ Usable(i, j)
                 /\ RegexMatches(i, j)
                 /\ results[i].text = Filled(i, j).text
       /\ results[i].step = "transform"
  /\ \E i \in Processed :
       /\ TransformOnly(i)
       /\ \E k \in 1..Len(PatternsOf(i)) :
            /\ Usable(i, k)
            /\ RegexMatches(i, k)
            /\ Filled(i, k).status = "KeyError"
            /\ \E j \in (k + 1)..Len(PatternsOf(i)) :
                 Usable(i, j) /\ RegexMatches(i, j) /\ Filled(i, j).status = "ok"
       /\ results[i].step # "transform"

\* record i was emitted by the default path
DefaultPathRecord(i) == results[i].step \in {"whole", "partial", "untranslated"}

\* T is a key of the type dictionary and of no other dictionary
OnlyType(T) ==
  /\ T \in DOMAIN type_translations
  /\ T \notin DOMAIN item_translations
  /\ T \notin DOMAIN move_translations
  /\ T \notin DOMAIN ability_translations
  /\ T \notin DOMAIN translations

\* the text holds one of the type-indicator words, whatever its case
HasTypeIndicator(text) ==
  \E w \in {<<"i","n","c","e","n","s","e">>, <<"p","l","a","t","e">>, <<"b","e","r","r","y">>, <<"g","e","m">>, <<"t","y","p","e">>, <<"r","e","s","i","s","t","a","n","c","e">>,
             <<"w","e","a","k","n","e","s","s">>, <<"p","o","w","e","r">>, <<"b","o","o","s","t">>, <<"s","t","o","n","e">>, <<"c","h","a","r","m">>} :
    Contains(Lower(text), w)

\* the text is long-form: over 50 characters, or with a phrase marker
LongForm(text) ==
  \/ Len(text) > DescriptionLength
  \/ \E p \in DescriptionPhrases : Contains(Lower(text), p)

\* the text holds a whole-word occurrence of T, whatever its case
Occurs(T, text) == PatSearch(CompiledPattern(T), text)

\* the text with every whole-word occurrence of T replaced by its type entry
TypeReplaced(T, text) == PatSub(CompiledPattern(T), type_translations[T], text)

\* C9 as the specification states it: a record of the default path whose
\* text holds a type-indicator word and a whole-word occurrence of a term
\* found only in the type dictionary is emitted as translated, with the type
\* translation in its text; with Fire -> Fuoco the text "This move is Fire
\* type." is emitted as "This move is Fuoco type.".
C9_AsStated ==
  \A i \in Processed :
    DefaultPathRecord(i)
    => \A T \in DOMAIN type_translations :
         (/\ OnlyType(T)
          /\ HasTypeIndicator(Strip(document[i].text))
          /\ Occurs(T, Strip(document[i].text)))
         => /\ results[i].kind = "translated"
            /\ Contains(results[i].text, type_translations[T])
            /\ (T = <<"F","i","r","e">> /\ type_translations[T] = <<"F","u","o","c","o">>
                   /\ document[i].text = <<"T","h","i","s"," ","m","o","v","e"," ","i","s"," ","F","i","r","e"," ","t","y","p","e",".">>)
               => results[i].text = <<"T","h","i","s"," ","m","o","v","e"," ","i","s"," ","F","u","o","c","o"," ","t","y","p","e",".">>

\* C9, amended: a record of the default path whose text is not long-form (at
\* most 50 characters, no conversational phrase marker), holds no
\* parenthesis, holds a type-indicator word and a whole-word occurrence of a
\* term T found only in the type dictionary, where the text is no other
\* dictionary term and no other dictionary term occurs in it before or after
\* the replacement, and T's translation is non-empty and free of backslashes
\* and parentheses, is emitted as translated with every whole-word
\* occurrence of T replaced by the type translation ("Fire type." becomes
\* "Fuoco type.").  A long-form text such as "This move is Fire type."
\* (marker "this move") with a single-word T is emitted unchanged.
C9_TypeIndicatorReplaces ==
  \A i \in Processed :
    DefaultPathRecord(i)
    => \A T \in DOMAIN type_translations :
         LET text == Strip(document[i].text)
         IN (/\ OnlyType(T)
             /\ HasTypeIndicator(text)
             /\ Occurs(T, text)
             /\ "(" \notin Range(text) \cup Range(type_translations[T])
             /\ "\\" \notin Range(type_translations[T])
             /\ type_translations[T] # << >>
             /\ text \notin AllTerms \ {T}
             /\ \A u \in AllTerms \ {T} :
                  ~Occurs(u, text) /\ ~Occurs(u, TypeReplaced(T, text)))
            => IF LongForm(text)
                 THEN NumWords(T) = 1
                      => results[i].kind = "original" /\ results[i].text = document[i].text
                 ELSE /\ results[i].kind = "translated"
                      /\ results[i].text = TypeReplaced(T, text)

\* "Fire type." has gone through the default path with Fire in the type
\* dictionary only, and came out as "Fuoco type."
C9_Witness ==
  \E i \in Processed :
    /\ DefaultPathRecord(i)
    /\ OnlyType(<<"F","i","r","e">>)
    /\ Strip(document[i].text) = <<"F","i","r","e"," ","t","y","p","e",".">>
    /\ \A u \in AllTerms \ {<<"F","i","r","e">>} : ~Occurs(u, <<"F","i","r","e"," ","t","y","p","e",".">>)
    /\ results[i].text = <<"F","u","o","c","o"," ","t","y","p","e",".">>

\* ------------------------------------------------------------------------
\* Properties of loading (specification SpecLoad)
\* ------------------------------------------------------------------------

\* the keys an id or key of the file stands for: itself, or the decimal
\* strings of the integers of its range
KeysOf(id_item) ==
  IF IsRangeForm(id_item)
    THEN {IntToStr(n) : n \in RangeOf(id_item)}
    ELSE {id_item}

\* the last entry of a list of entries that stands for the key
LastFor(ids, key) ==
  Least({k \in 1..Len(ids) :
           /\ key \in KeysOf(ids[k])
           /\ \A j \in (k + 1)..Len(ids) : key \notin KeysOf(ids[j])})

\* one category loaded as the claim reads it: ids are the ids or keys of the
\* file's entries in load order, payloads their payloads, map what was loaded
LoadedAsRanges(ids, payloads, map) ==
  /\ \A k \in 1..Len(ids) :
       RangeOf(ids[k]) # {}
       => /\ Cardinality(KeysOf(ids[k])) = Cardinality(RangeOf(ids[k]))
          /\ KeysOf(ids[k]) \subseteq DOMAIN map
  /\ DOMAIN map = UNION {KeysOf(ids[k]) : k \in 1..Len(ids)}
  /\ \A key \in DOMAIN map : map[key] = payloads[LastFor(ids, key)]

\* C4: once the file is loaded, every range id "a-b" with a <= b of an
\* override, transform, no_translation or legacy entry has given b-a+1 keys,
\* the decimal strings of a..b, each with the entry's payload; the maps hold
\* no key that no entry stands for; a key two entries stand for has the
\* payload of the later one.
C4_RangeExpansion ==
  pc = "special_cases_loaded"
  => LET f == special_cases_file
     IN /\ LoadedAsRanges(
             [k \in 1..Len(f.override_translation) |-> f.override_translation[k].id],
             [k \in 1..Len(f.override_translation) |->
                [translation |-> f.override_translation[k].translation,
                 reason |-> f.override_translation[k].reason]],
             global_override_translations)
        /\ LoadedAsRanges(
             [k \in 1..Len(f.transform_translation) |-> f.transform_translation[k].id],
             [k \in 1..Len(f.transform_translation) |->
                [patterns |-> f.transform_translation[k].patterns,
                 reason |-> f.transform_translation[k].reason]],
             global_transform_translations)
        /\ LoadedAsRanges(
             [k \in 1..Len(f.legacy) |-> f.legacy[k].key],
             [k \in 1..Len(f.legacy) |-> f.legacy[k].value],
             special_cases)
        /\ \A k \in 1..Len(f.no_translation) :
             RangeOf(f.no_translation[k].id) # {}
             => KeysOf(f.no_translation[k].id) \subseteq global_no_translation_ids
        /\ global_no_translation_ids =
             UNION {KeysOf(f.no_translation[k].id) : k \in 1..Len(f.no_translation)}

\* the range 2-4 and, after it, an entry for id 3 with another payload have
\* been loaded as overrides: three keys, "3" with the later payload
C4_Witness ==
  /\ pc = "special_cases_loaded"
  /\ Len(special_cases_file.override_translation) = 2
  /\ special_cases_file.override_translation[1].id = <<"2","-","4">>
  /\ special_cases_file.override_translation[2].id \in {<<"3">>, <<"3","-","3">>}
  /\ special_cases_file.override_translation[1].translation
       # special_cases_file.override_translation[2].translation
  /\ DOMAIN global_override_translations = {<<"2">>, <<"3">>, <<"4">>}
  /\ global_override_translations[<<"3">>].translation
       = special_cases_file.override_translation[2].translation
  /\ global_override_translations[<<"2">>].translation
       = special_cases_file.override_translation[1].translation

\* ------------------------------------------------------------------------
\* Properties of the resolver (specification SpecResolver)
\* ------------------------------------------------------------------------

\* get_contextual_translation has been called
Resolved == pc = "resolved"

\* C6 as the specification states it: with the context exactly the term and
\* the term a key of the type dictionary, the resolver returns the type
\* dictionary's entry.
C6_AsStated ==
  (/\ Resolved
   /\ resolver_call[1] = resolver_call[2]
   /\ resolver_call[1] \in DOMAIN type_translations)
  => resolver_result = type_translations[resolver_call[1]]

\* C6, amended: with the context exactly the term and the term a key of the
\* type dictionary, the resolver returns none when the term is one word and
\* long-form; else the item entry, else the move entry, else the ability
\* entry when the term is a key of that dictionary; else the type entry when
\* the term itself holds a type-indicator word; else the generic entry, or
\* none when there is no generic entry ("Psychic" with a type entry only
\* resolves to none).
C6_TermAsContext ==
  (/\ Resolved
   /\ resolver_call[1] = resolver_call[2]
   /\ resolver_call[1] \in DOMAIN type_translations)
  => LET term == resolver_call[1]
     IN resolver_result =
          IF LongForm(term) /\ NumWords(term) = 1 THEN None
          ELSE IF term \in DOMAIN item_translations THEN item_translations[term]
          ELSE IF term \in DOMAIN move_translations THEN move_translations[term]
          ELSE IF term \in DOMAIN ability_translations THEN ability_translations[term]
          ELSE IF HasTypeIndicator(term) THEN type_translations[term]
          ELSE IF term \in DOMAIN translations THEN translations[term]
          ELSE None

\* "Psychic" was resolved in the context "Psychic" with a type entry and no
\* entry in another dictionary, and none came back
C6_Witness ==
  /\ Resolved
  /\ resolver_call = <<<<"P","s","y","c","h","i","c">>, <<"P","s","y","c","h","i","c">>>>
  /\ OnlyType(<<"P","s","y","c","h","i","c">>)
  /\ Truthy(type_translations[<<"P","s","y","c","h","i","c">>])
  /\ resolver_result = None

\* C7: for a term of one word and a long-form context (over 50 characters,
\* or holding a conversational phrase marker) the resolver returns none,
\* whichever dictionaries hold the term and whatever the context holds in
\* parentheses.
C7_LongFormSingleWord ==
  (/\ Resolved
   /\ NumWords(resolver_call[1]) = 1
   /\ LongForm(resolver_call[2]))
  => resolver_result = None

\* a one-word term that four dictionaries hold was resolved in a context of
\* 51 characters without a phrase marker
C7_Witness ==
  /\ Resolved
  /\ resolver_call[1] = <<"P","s","y","c","h","i","c">>
  /\ Len(resolver_call[2]) = DescriptionLength + 1
  /\ ~(\E p \in DescriptionPhrases : Contains(Lower(resolver_call[2]), p))
  /\ <<"P","s","y","c","h","i","c">> \in DOMAIN type_translations
  /\ <<"P","s","y","c","h","i","c">> \in DOMAIN move_translations
  /\ <<"P","s","y","c","h","i","c">> \in DOMAIN ability_translations
  /\ <<"P","s","y","c","h","i","c">> \in DOMAIN translations
  /\ resolver_result = None

\* the id reads <int>-<int>: digits, one dash, digits
WellFormedRange(id_item) ==
  \E k \in 1..Len(id_item) :
    /\ id_item[k] = "-"
    /\ IsDigitStr(SubSeq(id_item, 1, k - 1))
    /\ IsDigitStr(SubSeq(id_item, k + 1, Len(id_item)))

\* the id is taken for a range by the loader and does not read <int>-<int>
MalformedRange(id_item) == IsRangeForm(id_item) /\ ~WellFormedRange(id_item)

\* the special-cases file without its entries of a malformed range
WithoutMalformed(f) ==
  [f EXCEPT
     !.override_translation = SelectSeq(@, LAMBDA e : ~MalformedRange(e.id)),
     !.transform_translation = SelectSeq(@, LAMBDA e : ~MalformedRange(e.id)),
     !.no_translation = SelectSeq(@, LAMBDA e : ~MalformedRange(e.id)),
     !.legacy = SelectSeq(@, LAMBDA e : ~MalformedRange(e.key))]

\* C17: once the file is loaded, no id or key of a malformed range is a key
\* of a registry map, and the maps are those the same file without the
\* entries of a malformed range loads to: the entries before and after a
\* malformed one are loaded as if it were absent.
C17_MalformedRangeSkipped ==
  pc = "special_cases_loaded"
  => LET f == special_cases_file
         r == Registry(WithoutMalformed(f))
     IN /\ special_cases = r.special_cases
        /\ global_no_translation_ids = r.global_no_translation_ids
        /\ global_override_translations = r.global_override_translations
        /\ global_transform_translations = r.global_transform_translations
        /\ \A id \in LoadIds :
             MalformedRange(id)
             => /\ id \notin DOMAIN special_cases
                /\ id \notin global_no_translation_ids
                /\ id \notin DOMAIN global_override_translations
                /\ id \notin DOMAIN global_transform_translations

\* a file whose first legacy key is a malformed range and whose second is an
\* id has been loaded: the map holds the second entry only
C17_Witness ==
  /\ pc = "special_cases_loaded"
  /\ Len(special_cases_file.legacy) = 2
  /\ special_cases_file.legacy[1].key = <<"1",".","5","-","3">>
  /\ special_cases_file.legacy[2].key = <<"3">>
  /\ DOMAIN special_cases = {<<"3">>}
  /\ special_cases[<<"3">>] = special_cases_file.legacy[2].value

\* ------------------------------------------------------------------------
\* Counters and error handling of the cascade (specification Spec)
\* ------------------------------------------------------------------------

\* total_elements = len(re.findall(string_pattern, xml_content, re.DOTALL))
total_elements == Len(document)

\* record i has no text left after strip()
EmptyRecord(i) == Strip(document[i].text) = << >>

\* C13 as stated: a record whose text is empty or whitespace-only is emitted
\* unchanged and counted by none of the counters: not by translated,
\* not-translated and special-cases-applied, and not by the running and the
\* total record count, which count the records with text only.
C13_AsStated ==
  /\ \A i \in Processed :
       EmptyRecord(i)
       => /\ results[i].kind = "original"
          /\ Returned(document[i], results[i]) = document[i].group0
          /\ results[i].t = 0 /\ results[i].n = 0 /\ results[i].s = 0
  /\ current = Cardinality({i \in Processed : ~EmptyRecord(i)})
  /\ written => total_elements = Cardinality({i \in 1..Len(document) : ~EmptyRecord(i)})

\* the first pattern of record i's transform entry that has a regex and a
\* template and whose regex matches is reached, and its template names a
\* variable that is not defined
TemplateKeyError(i) ==
  /\ TransformOnly(i)
  /\ LET cand == {j \in 1..Len(PatternsOf(i)) : Usable(i, j) /\ RegexMatches(i, j)}
     IN /\ cand # {}
        /\ \A j \in 1..(Least(cand) - 1) : Usable(i, j) => PatternsOf(i)[j].regex.valid
        /\ Filled(i, Least(cand)).status = "KeyError"

\* C14 as stated: a record whose first matching pattern cannot be filled is
\* resolved by the default path: whole-text resolution, then partial
\* substitution.
C14_AsStated ==
  \A i \in Processed :
    TemplateKeyError(i) => results[i].step \in {"whole", "partial", "untranslated"}

\* C14: a record whose first usable matching pattern names an undefined
\* variable is emitted as a record of the same id and text is for which there
\* is no transform entry: by the legacy special case of its id if that one
\* emits, else by the default path; only special_cases_applied is one more.
C14_KeyErrorFallsThrough ==
  \A i \in Processed :
    TemplateKeyError(i)
    => LET r == LegacyStep(document[i], Strip(document[i].text), 0)
       IN /\ results[i].kind = r.kind
          /\ results[i].step = r.step
          /\ results[i].text = r.text
          /\ results[i].t = r.t
          /\ results[i].n = r.n
          /\ results[i].s = r.s + 1

\* a record whose template cannot be filled is emitted by the legacy
\* add_translation entry of its id
C14_Witness ==
  \E i \in Processed :
    /\ TemplateKeyError(i)
    /\ results[i].step = "legacy_add_translation"
    /\ results[i].kind = "translated"

\* C15 as stated: a record with a matching pattern whose template names a
\* missing variable is emitted with its original text.
C15_AsStated ==
  \A i \in Processed :
    TemplateKeyError(i)
    => /\ results[i].kind = "original"
       /\ Returned(document[i], results[i]) = document[i].group0

\* the legacy special case of record i's id keeps the record as it is
LegacyKeeps(i) ==
  /\ document[i].id \in DOMAIN special_cases
  /\ special_cases[document[i].id].type = "no_translation"

\* the legacy add_translation terms of record i's id change its text
LegacyChanges(i) ==
  /\ document[i].id \in DOMAIN special_cases
  /\ special_cases[document[i].id].type = "add_translation"
  /\ special_cases[document[i].id].translations # << >>
  /\ LegacySubstitute(special_cases[document[i].id].translations,
                      Strip(document[i].text)).text # Strip(document[i].text)

\* the default path translates record i: the whole text resolves, or partial
\* substitution changes it
DefaultTranslates(i) ==
  \/ Truthy(get_contextual_translation(Strip(document[i].text), Strip(document[i].text)))
  \/ PartialSubstitute(sorted_terms, Strip(document[i].text),
                       Strip(document[i].text)).text # Strip(document[i].text)

\* C15: the KeyError of a template is caught and the record goes on: it is
\* not emitted at the transform step, and unless a later step raises it is
\* emitted with its original text exactly when the legacy entry of its id is
\* of type no_translation, or no legacy add_translation term changes the
\* text and the default path translates nothing; else it is emitted as
\* translated by the legacy terms or the default path.
C15_KeyErrorEmitsLaterSteps ==
  \A i \in Processed :
    (TemplateKeyError(i) /\ results[i].kind # "raise")
    => /\ results[i].step # "transform"
       /\ results[i].kind = "original"
            <=> (LegacyKeeps(i) \/ (~LegacyChanges(i) /\ ~DefaultTranslates(i)))
       /\ results[i].kind = "original"
            => Returned(document[i], results[i]) = document[i].group0
       /\ results[i].t + results[i].n = 1

\* a record whose template cannot be filled is emitted as translated by
\* partial substitution
C15_Witness ==
  \E i \in Processed :
    /\ TemplateKeyError(i)
    /\ results[i].kind = "translated"
    /\ results[i].step = "partial"
    /\ results[i].text # Strip(document[i].text)

\* C16 as stated: with a missing registry file or dictionary directory the
\* engine still goes through the records and saves the document, even with
\* five empty dictionaries: it never ends with nothing written.
C16_AsStated ==
  pc # "no_translations"

\* C18 as stated: replace_content ends, for every record, by emitting the
\* record as original or as translated, and the document is gone through.
C18_AsStated ==
  /\ \A i \in Processed : results[i].kind \in {"original", "translated"}
  /\ pc # "raised"

\* ------------------------------------------------------------------------
\* Order of the cascade and the transform step (specification Spec)
\* ------------------------------------------------------------------------

\* the transform step emits record i, were it reached: the first pattern with
\* a regex and a template whose regex matches is reached and can be filled
TransformEmits(i) ==
  /\ document[i].id \in DOMAIN global_transform_translations
  /\ LET cand == {j \in 1..Len(PatternsOf(i)) : Usable(i, j) /\ RegexMatches(i, j)}
     IN /\ cand # {}
        /\ \A j \in 1..(Least(cand) - 1) : Usable(i, j) => PatternsOf(i)[j].regex.valid
        /\ Filled(i, Least(cand)).status = "ok"

\* the pattern of record i the transform step applies
Applied(i) ==
  Least({j \in 1..Len(PatternsOf(i)) : Usable(i, j) /\ RegexMatches(i, j)})

LegacySteps == {"legacy_no_translation", "legacy_add_translation"}

DefaultSteps == {"whole", "partial", "untranslated"}

\* C19 as stated: a record whose id is in no_translation and in transforms
\* is emitted as original; a record whose id has a transform with a matching
\* pattern and a legacy entry is emitted as the transform result; a legacy
\* entry emits only when no earlier step did (ids in overrides apart).
C19_AsStated ==
  \A i \in Processed :
    (NonEmpty(i) /\ document[i].id \notin DOMAIN global_override_translations)
    => /\ (/\ document[i].id \in global_no_translation_ids
           /\ document[i].id \in DOMAIN global_transform_translations)
          => results[i].kind = "original"
       /\ (/\ document[i].id \notin global_no_translation_ids
           /\ document[i].id \in DOMAIN global_transform_translations
           /\ \E k \in 1..Len(PatternsOf(i)) : RegexMatches(i, k)
           /\ document[i].id \in DOMAIN special_cases)
          => results[i].step = "transform"
       /\ results[i].step \in LegacySteps
          => document[i].id \notin global_no_translation_ids

\* C19: for a record with non-empty text the steps are taken in the order
\* override, global no_translation, global transform, legacy special case,
\* default path, and the first that emits decides: an id in overrides is
\* emitted at the override step; else an id in no_translation as original,
\* whatever transforms holds; else a record the transform step can emit (its
\* first usable matching pattern can be filled) as the filled template,
\* whatever legacy entry its id has; a legacy entry emits only when none of
\* these did, and the default path only when the legacy entry did not.
C19_StepOrder ==
  \A i \in Processed :
    NonEmpty(i)
    => LET over == document[i].id \in DOMAIN global_override_translations
           notr == document[i].id \in global_no_translation_ids
       IN /\ over => results[i].step = "override"
          /\ (~over /\ notr)
             => results[i].step = "no_translation" /\ results[i].kind = "original"
          /\ (~over /\ ~notr /\ TransformEmits(i))
             => /\ results[i].step = "transform"
                /\ results[i].kind = "translated"
                /\ results[i].text = Filled(i, Applied(i)).text
          /\ results[i].step \in LegacySteps
             => /\ ~over /\ ~notr /\ ~TransformEmits(i)
                /\ document[i].id \in DOMAIN special_cases
          /\ results[i].step \in DefaultSteps
             => /\ ~over /\ ~notr /\ ~TransformEmits(i)
                /\ ~LegacyKeeps(i)
                /\ ~LegacyChanges(i)

\* a record whose id has a legacy no_translation entry is emitted as the
\* filled template of its transform
C19_Witness ==
  \E i \in Processed :
    /\ NonEmpty(i)
    /\ TransformEmits(i)
    /\ LegacyKeeps(i)
    /\ results[i].step = "transform"
    /\ results[i].text # Strip(document[i].text)

\* the template of the pattern applied to record i names {translated}
UsesTranslated(i) ==
  \E p \in 1..Len(PatternsOf(i)[Applied(i)].template) :
    /\ PatternsOf(i)[Applied(i)].template[p].kind = "var"
    /\ PatternsOf(i)[Applied(i)].template[p].name = "translated"

\* the main term of record i: group 1 of the applied pattern's match, or the
\* whole text when the regex has no group
MainTerm(i) ==
  LET m == RegexSearch(PatternsOf(i)[Applied(i)].regex, Strip(document[i].text))
  IN IF Len(m.groups) > 0 THEN m.groups[1] ELSE Strip(document[i].text)

\* what the resolver gives for the main term in the whole text, the main term
\* itself when it gives nothing
ResolvedMainTerm(i) ==
  LET t == get_contextual_translation(MainTerm(i), Strip(document[i].text))
  IN IF Truthy(t) THEN t ELSE MainTerm(i)

\* the record-scoped add_translation terms of record i's id
RecordScoped(i) ==
  IF /\ document[i].id \in DOMAIN special_cases
     /\ special_cases[document[i].id].type = "add_translation"
    THEN special_cases[document[i].id].translations
    ELSE << >>

\* the text of record i with v as the value of {translated}
FilledWith(i, v) ==
  LET original_text == Strip(document[i].text)
      m == RegexSearch(PatternsOf(i)[Applied(i)].regex, original_text)
  IN Format(PatternsOf(i)[Applied(i)].template, TemplateVars(original_text, m, v)).text

\* record i is emitted at the transform step from a template with {translated}
EmittedWithTranslated(i) ==
  /\ NonEmpty(i)
  /\ results[i].step = "transform"
  /\ results[i].kind = "translated"
  /\ UsesTranslated(i)

\* C20 as stated: {translated} is the main term's entry in the record-scoped
\* add_translation terms of the record's id if there is one, else what the
\* resolver gives for it in the whole text.
C20_AsStated ==
  \A i \in Processed :
    EmittedWithTranslated(i)
    => results[i].text =
         FilledWith(i, IF \E e \in 1..Len(RecordScoped(i)) :
                            RecordScoped(i)[e].term = MainTerm(i)
                         THEN RecordScoped(i)[CHOOSE e \in 1..Len(RecordScoped(i)) :
                                RecordScoped(i)[e].term = MainTerm(i)].translation
                         ELSE ResolvedMainTerm(i))

\* C20: {translated} is the main term's entry in the global add_translation
\* map if there is one, else what the resolver gives for the main term with
\* the whole original text as context, else the main term itself; the
\* record-scoped terms of the record's id are not read.
C20_GlobalAddTranslationFirst ==
  \A i \in Processed :
    EmittedWithTranslated(i)
    => results[i].text =
         FilledWith(i, IF MainTerm(i) \in DOMAIN global_add_translations
                         THEN global_add_translations[MainTerm(i)]
                         ELSE ResolvedMainTerm(i))

\* a record is emitted from a template with {translated} whose main term is
\* in the global add_translation map and resolves to something else
C20_Witness ==
  \E i \in Processed :
    /\ EmittedWithTranslated(i)
    /\ MainTerm(i) \in DOMAIN global_add_translations
    /\ ResolvedMainTerm(i) # global_add_translations[MainTerm(i)]
    /\ ResolvedMainTerm(i) # MainTerm(i)
    /\ Contains(results[i].text, global_add_translations[MainTerm(i)])

\* ------------------------------------------------------------------------
\* The legacy special case and the default path (specification Spec)
\* ------------------------------------------------------------------------

\* record i gets to the legacy step: no global step emitted it or raised
ReachesLegacy(i) ==
  /\ NonEmpty(i)
  /\ document[i].id \notin DOMAIN global_override_translations
  /\ document[i].id \notin global_no_translation_ids
  /\ ~TransformEmits(i)
  /\ results[i].step # "transform"

\* term occurs in text at position i as a whole word, in the case it is
\* written in
WholeWordAt(term, text, i) ==
  /\ i + Len(term) - 1 <= Len(text)
  /\ SubSeq(text, i, i + Len(term) - 1) = term
  /\ Boundary(text, i - 1)
  /\ Boundary(text, i + Len(term) - 1)

\* text from position i on, with the whole-word occurrences of term replaced
RECURSIVE ReplaceWholeWords(_, _, _, _)
ReplaceWholeWords(term, replacement, text, i) ==
  IF i > Len(text) THEN << >>
  ELSE IF WholeWordAt(term, text, i)
    THEN replacement \o ReplaceWholeWords(term, replacement, text, i + Len(term))
    ELSE <<text[i]>> \o ReplaceWholeWords(term, replacement, text, i + 1)

\* the keys of the term map replaced one after the other, in map order
RECURSIVE ReplaceTerms(_, _)
ReplaceTerms(terms, text) ==
  IF terms = << >> THEN text
  ELSE ReplaceTerms(Tail(terms),
                    ReplaceWholeWords(Head(terms).term,
                                      ReplTemplate(Head(terms).translation).text,
                                      text, 1))

\* C21: a record that gets to the legacy step and whose id has an entry of
\* type no_translation is emitted as original; with an entry of type
\* add_translation and a non-empty term map, every whole-word occurrence, in
\* the case written, of each key is replaced by its translation, key after
\* key, and the record is emitted with that text if it differs from the
\* original; in every other case (no entry, empty map, nothing replaced) the
\* record is emitted by the default path.  (A replacement the regular
\* expression engine rejects raises instead.)
C21_LegacyStep ==
  \A i \in Processed :
    (ReachesLegacy(i) /\ results[i].kind # "raise")
    => IF LegacyKeeps(i)
         THEN /\ results[i].step = "legacy_no_translation"
              /\ results[i].kind = "original"
              /\ Returned(document[i], results[i]) = document[i].group0
       ELSE IF /\ RecordScoped(i) # << >>
               /\ ReplaceTerms(RecordScoped(i), Strip(document[i].text))
                    # Strip(document[i].text)
         THEN /\ results[i].step = "legacy_add_translation"
              /\ results[i].kind = "translated"
              /\ results[i].text =
                   ReplaceTerms(RecordScoped(i), Strip(document[i].text))
       ELSE results[i].step \in DefaultSteps

\* a record was emitted with a legacy term replaced, and another term of its
\* map, written in another case in the text, was left alone
C21_Witness ==
  \E i \in Processed :
    /\ ReachesLegacy(i)
    /\ results[i].step = "legacy_add_translation"
    /\ results[i].text # Strip(document[i].text)
    /\ \E e \in 1..Len(RecordScoped(i)) :
         /\ PatSearch(LegacyPattern_ignore_case(RecordScoped(i)[e].term),
                      Strip(document[i].text))
         /\ \A p \in 1..Len(Strip(document[i].text)) :
              ~WholeWordAt(RecordScoped(i)[e].term, Strip(document[i].text), p)
         /\ ~Contains(results[i].text, RecordScoped(i)[e].translation)

\* what get_contextual_translation gives for the whole text of record i
WholeText(i) ==
  get_contextual_translation(Strip(document[i].text), Strip(document[i].text))

\* the working text partial substitution leaves of record i
WorkingText(i) ==
  PartialSubstitute(sorted_terms, Strip(document[i].text), Strip(document[i].text)).text

\* C22: in the default path, when get_contextual_translation(originalText,
\* originalText) yields a result the record is emitted as translated with
\* that result (after the parenthesis post-pass) and partial substitution
\* has no part in it; otherwise the record is emitted as translated, with
\* the working text of partial substitution, exactly when that text differs
\* from the original, and else as original, counted as not translated.
C22_DefaultPath ==
  \A i \in Processed :
    (DefaultPathRecord(i) /\ results[i].kind # "raise")
    => IF Truthy(WholeText(i))
         THEN /\ results[i].step = "whole"
              /\ results[i].kind = "translated"
              /\ results[i].text = translate_parentheses(WholeText(i))
              /\ results[i].t = 1 /\ results[i].n = 0
         ELSE /\ results[i].step # "whole"
              /\ results[i].kind = "translated"
                   <=> WorkingText(i) # Strip(document[i].text)
              /\ results[i].kind = "translated"
                   => /\ results[i].text = translate_parentheses(WorkingText(i))
                      /\ results[i].t = 1 /\ results[i].n = 0
              /\ results[i].kind = "original"
                   => /\ Returned(document[i], results[i]) = document[i].group0
                      /\ results[i].t = 0 /\ results[i].n = 1

\* a record whose whole text resolves was emitted with that result, where
\* the term index holds a term that occurs in the text
C22_Witness ==
  \E i \in Processed :
    /\ DefaultPathRecord(i)
    /\ Truthy(WholeText(i))
    /\ results[i].text = WholeText(i)
    /\ results[i].kind = "translated"
    /\ \E k \in 1..Len(sorted_terms) : Occurs(sorted_terms[k], Strip(document[i].text))

\* the starts of the matches pattern.sub replaces in text, from position i
RECURSIVE MatchStarts(_, _, _)
MatchStarts(pat, text, i) ==
  IF i > Len(text) THEN {}
  ELSE IF PatMatchAt(pat, text, i)
    THEN {i} \cup MatchStarts(pat, text, i + Len(pat.term))
    ELSE MatchStarts(pat, text, i + 1)

\* which characters of pattern.sub(repl, text) are inserted text, inserted
\* saying it of the characters of text
RECURSIVE InsertedAfterSub(_, _, _, _, _)
InsertedAfterSub(pat, repl, text, inserted, i) ==
  IF i > Len(text) THEN << >>
  ELSE IF PatMatchAt(pat, text, i)
    THEN [k \in 1..Len(repl) |-> TRUE]
           \o InsertedAfterSub(pat, repl, text, inserted, i + Len(pat.term))
    ELSE <<inserted[i]>> \o InsertedAfterSub(pat, repl, text, inserted, i + 1)

\* the loop of partial substitution over terms replaces, for some term, a
\* match that holds a character an earlier term inserted
RECURSIVE DoubleTranslates(_, _, _, _)
DoubleTranslates(terms, working_text, inserted, original_text) ==
  IF terms = << >> THEN FALSE
  ELSE LET pat == CompiledPattern(Head(terms))
           context_translation == get_contextual_translation(Head(terms), original_text)
           repl == ReplTemplate(context_translation)
       IN IF PatSearch(pat, working_text) /\ Truthy(context_translation)
            THEN /\ repl.ok
                 /\ \/ \E p \in MatchStarts(pat, working_text, 1) :
                         \E q \in p..(p + Len(pat.term) - 1) : inserted[q]
                    \/ DoubleTranslates(
                         Tail(terms),
                         PatSub(pat, repl.text, working_text),
                         InsertedAfterSub(pat, repl.text, working_text, inserted, 1),
                         original_text)
            ELSE DoubleTranslates(Tail(terms), working_text, inserted, original_text)

\* C23 as stated: in a record emitted by partial substitution, no term
\* matches and replaces text that was inserted as the translation of an
\* earlier term of the term index.
C23_AsStated ==
  \A i \in Processed :
    (results[i].step = "partial" /\ results[i].kind = "translated")
    => ~DoubleTranslates(sorted_terms, Strip(document[i].text),
                         [k \in 1..Len(Strip(document[i].text)) |-> FALSE],
                         Strip(document[i].text))

\* ------------------------------------------------------------------------
\* The term index and its patterns (specification Spec)
\* ------------------------------------------------------------------------

\* the term index has been built in this run
Compiled == pc \in {"replacing", "raised", "saved"}

\* the place of the dictionary that brings a term into all_terms first:
\* generic, type, move, ability, item
Discovery(term) ==
  IF term \in DOMAIN translations THEN 1
  ELSE IF term \in DOMAIN type_translations THEN 2
  ELSE IF term \in DOMAIN move_translations THEN 3
  ELSE IF term \in DOMAIN ability_translations THEN 4
  ELSE 5

\* C24 as stated: the term index holds every key of the five dictionaries
\* exactly once, in non-increasing length, terms of the same length in the
\* order the dictionaries brought them in (so that every run with the same
\* inputs has the same index).
C24_AsStated ==
  Compiled
  => /\ Range(sorted_terms) = AllTerms
     /\ Len(sorted_terms) = Cardinality(AllTerms)
     /\ \A a, b \in 1..Len(sorted_terms) :
          a < b => /\ Len(sorted_terms[a]) >= Len(sorted_terms[b])
                   /\ Len(sorted_terms[a]) = Len(sorted_terms[b])
                        => Discovery(sorted_terms[a]) <= Discovery(sorted_terms[b])

\* C25 as stated: the pattern of a term of the index asserts a word boundary
\* on the left exactly when the term does not begin with one of . ! ? , : ;
\* and on the right exactly when it does not end with one, and is compiled
\* ignoring case.
C25_AsStated ==
  Compiled
  => \A k \in 1..Len(sorted_terms) :
       LET term == sorted_terms[k]
       IN /\ CompiledPattern(term).left <=> term[1] \notin Punctuation
          /\ CompiledPattern(term).right <=> term[Len(term)] \notin Punctuation
          /\ CompiledPattern(term).ic

\* the records with non-empty text that replace_content has emitted
Emitted == {i \in Processed : NonEmpty(i) /\ results[i].kind # "raise"}

\* C28: translated_count + not_translated_count is the number of records
\* with non-empty text that have been processed: each of them adds one to
\* exactly one of the two counters, whichever step emits it, and a record
\* with empty text adds nothing.
C28_CountersPartitionRecords ==
  /\ translated_count + not_translated_count = Cardinality(Emitted)
  /\ \A i \in Processed :
       /\ results[i].t \in {0, 1}
       /\ results[i].n \in {0, 1}
       /\ results[i].t + results[i].n = IF i \in Emitted THEN 1 ELSE 0
       /\ i \in Emitted => (results[i].t = 1 <=> results[i].kind = "translated")

\* records were counted on a path where the transform step could not fill
\* its template, on the override path and on the no_translation path
C28_Witness ==
  /\ Len(results) >= 2
  /\ translated_count > 0
  /\ not_translated_count > 0
  /\ \E i \in Processed : TemplateKeyError(i) /\ i \in Emitted

\* ------------------------------------------------------------------------
\* Properties of the saved document (specification Spec)
\* ------------------------------------------------------------------------

\* the text re.sub gives for the document read: every record replaced by
\* what replace_content returned for it
Substituted == ReSub(input_file.content, document, results)

\* the add_block entries whose key is the normalized path of the document
MatchingBlocks ==
  {k \in 1..Len(add_block_data) :
     add_block_data[k].file_path = Normalized(input_file.path)}

\* text is body with the characters of c put in before position q of text
InsertedBefore(text, q, c, body) ==
  /\ q > Len(c)
  /\ SubSeq(text, q - Len(c), q - 1) = c
  /\ SubSeq(text, 1, q - Len(c) - 1) \o SubSeq(text, q, Len(text)) = body

\* C11 as stated: in a saved document the content of every add_block entry
\* whose path matches, followed by a newline, stands immediately before the
\* rightmost "</", and the rest is the text with every record substituted.
C11_AsStated ==
  written =>
    \A k \in MatchingBlocks :
      InsertedBefore(xml_content, RFind(xml_content, <<"<","/">>),
                     add_block_data[k].content \o <<"\n">>, Substituted)

\* C11: in a saved document, the non-empty content of the add_block entry
\* whose key is the document's path with "\" replaced by "/", followed by a
\* newline, stands immediately before the rightmost "</" of the saved text,
\* and without it the saved text is the text in which every record of the
\* document read is substituted; an entry with empty content, or a text that
\* holds no "</", leaves the substituted text as it is.
C11_BlockBeforeLastClose ==
  written =>
    \A k \in MatchingBlocks :
      IF add_block_data[k].content # << >> /\ Contains(Substituted, <<"<","/">>)
        THEN InsertedBefore(xml_content, RFind(xml_content, <<"<","/">>),
                            add_block_data[k].content \o <<"\n">>, Substituted)
        ELSE xml_content = Substituted

\* a document is saved with a block put in behind a translated record, the
\* block itself holding a dictionary term that is left as it is
C11_Witness ==
  /\ written
  /\ run = 1
  /\ \E k \in MatchingBlocks : add_block_data[k].content = BlockContent
  /\ <<"F","i","r","e">> \in DOMAIN type_translations
  /\ \E i \in Processed : results[i].step = "partial"
  /\ xml_content # Substituted
  /\ Contains(xml_content, BlockContent \o <<"\n","<","/","r","e","s","o","u","r","c","e","s",">">>)

\* the saved text without the block add_block put in
OutputBody ==
  IF \E k \in MatchingBlocks :
       add_block_data[k].content # << >> /\ Contains(xml_content, <<"<","/">>)
    THEN LET k == CHOOSE j \in MatchingBlocks : add_block_data[j].content # << >>
             q == RFind(xml_content, <<"<","/">>)
             n == Len(add_block_data[k].content) + 1
         IN SubSeq(xml_content, 1, q - n - 1) \o SubSeq(xml_content, q, Len(xml_content))
    ELSE xml_content

\* the text before the i-th record, from the end of the record before it
GapBefore(xml, matches, i) ==
  SubSeq(xml, IF i = 1 THEN 1 ELSE matches[i - 1].end + 1, matches[i].start - 1)

\* the text behind the last record
GapAfter(xml, matches) ==
  SubSeq(xml, IF matches = << >> THEN 1 ELSE matches[Len(matches)].end + 1, Len(xml))

LongFormRule(english_term, context_text) ==
  LongForm(context_text) /\ NumWords(english_term) = 1

\* C26: when neither the long-form rule nor the parenthesis rule applies, a
\* term of the item dictionary resolves to its item entry, else a term of
\* the move dictionary to its move entry, else a term of the ability
\* dictionary to its ability entry, whatever indicator words the context
\* holds.
C26_DirectHitFirst ==
  (/\ Resolved
   /\ ~LongFormRule(resolver_call[1], resolver_call[2])
   /\ ~ParenthesesRule(resolver_call[1], resolver_call[2]))
  => LET term == resolver_call[1]
     IN /\ term \in DOMAIN item_translations
             => resolver_result = item_translations[term]
        /\ (term \notin DOMAIN item_translations /\ term \in DOMAIN move_translations)
             => resolver_result = move_translations[term]
        /\ (/\ term \notin DOMAIN item_translations
            /\ term \notin DOMAIN move_translations
            /\ term \in DOMAIN ability_translations)
             => resolver_result = ability_translations[term]

\* a term of the type and the move dictionary was resolved in a context with
\* a type indicator, and its move entry came back
C26_Witness ==
  /\ Resolved
  /\ ~LongFormRule(resolver_call[1], resolver_call[2])
  /\ ~ParenthesesRule(resolver_call[1], resolver_call[2])
  /\ HasTypeIndicator(resolver_call[2])
  /\ resolver_call[1] \in DOMAIN type_translations
  /\ resolver_call[1] \notin DOMAIN item_translations
  /\ resolver_call[1] \in DOMAIN move_translations
  /\ resolver_result = move_translations[resolver_call[1]]
  /\ resolver_result # type_translations[resolver_call[1]]

\* get_contextual_translation without the move-indicator and the
\* ability-indicator rule
WithoutIndicatorRules(english_term, context_text) ==
  IF is_description(context_text) /\ NumWords(english_term) = 1
    THEN None
  ELSE IF ParenthesesRule(english_term, context_text)
    THEN type_translations[english_term]
  ELSE IF english_term \in DOMAIN item_translations
    THEN item_translations[english_term]
  ELSE IF english_term \in DOMAIN move_translations
    THEN move_translations[english_term]
  ELSE IF english_term \in DOMAIN ability_translations
    THEN ability_translations[english_term]
  ELSE IF AnyIn(TypeIndicators, Lower(context_text))
            /\ english_term \in DOMAIN type_translations
    THEN type_translations[english_term]
  ELSE IF NumWords(context_text) <= 3 \/ english_term = context_text
    THEN Get(translations, english_term)
  ELSE None

\* C29: the move-indicator and the ability-indicator rule never decide: for
\* every term, context and dictionaries the resolver returns what it would
\* return without the two rules.
C29_IndicatorRulesNeverDecide ==
  Resolved
  => resolver_result = WithoutIndicatorRules(resolver_call[1], resolver_call[2])

\* a term of the move dictionary was resolved in a short context that holds
\* a move indicator, and a term of the ability dictionary in one that holds
\* an ability indicator: the conditions of the two rules are true
C29_Witness ==
  /\ Resolved
  /\ ~is_description(resolver_call[2])
  /\ ~ParenthesesRule(resolver_call[1], resolver_call[2])
  /\ \/ /\ AnyIn(MoveIndicators, Lower(resolver_call[2]))
        /\ resolver_call[1] \in DOMAIN move_translations
        /\ resolver_call[1] \notin DOMAIN item_translations
        /\ resolver_result = move_translations[resolver_call[1]]
     \/ /\ AnyIn(AbilityIndicators, Lower(resolver_call[2]))
        /\ resolver_call[1] \in DOMAIN ability_translations
        /\ resolver_call[1] \notin DOMAIN item_translations
        /\ resolver_call[1] \notin DOMAIN move_translations
        /\ resolver_result = ability_translations[resolver_call[1]]

\* ------------------------------------------------------------------------
\* Properties of calculate_next_mod_version (specification SpecVersion)
\* ------------------------------------------------------------------------

\* the existing tags of the submodule version asked for
ModTags ==
  SelectSeq(current_repo_tags, LAMBDA t : StartsWith(t, submodule_tag \o ModSeparator))

\* the tag after the numerically highest of the existing mod versions
NextAfterHighest ==
  LET groups == VersionMatch(VersionPart(LatestTag_numeric(ModTags))).groups
  IN submodule_tag \o ModSeparator \o groups[1] \o <<".">> \o groups[2] \o <<".">>
       \o IntToStr(ParseInt(groups[3]) + 1) \o <<"a">>

\* C27 as stated: calculate_next_mod_version returns "<tag>-mod_1.0.0a" when
\* no existing tag starts with "<tag>-mod_"; otherwise, for existing mod
\* versions of the form M.m.p, the tag after the highest of them; the tag
\* returned is never one of the existing tags.
C27_AsStated ==
  pc = "version_calculated"
  => /\ ModTags = << >> => next_mod_version = submodule_tag \o <<"-","m","o","d","_","1",".","0",".","0","a">>
     /\ (/\ ModTags # << >>
         /\ \A k \in 1..Len(ModTags) : VersionMatch(VersionPart(ModTags[k])).found)
        => next_mod_version = NextAfterHighest
     /\ \A k \in 1..Len(current_repo_tags) : current_repo_tags[k] # next_mod_version

====
